---------------------------- MODULE Spec2Model ----------------------------
(***************************************************************************)
(* A model of src/src/youtube.ts: the transcript cache (SQLite tables      *)
(* content and qa), getOrCreateTranscript, the chunked summarizer          *)
(* (chunkTranscript) and the retry helper (retryWithBackoff).              *)
(*                                                                         *)
(* The specifications that share the module:                               *)
(*   ChunkSpec  chunkTranscript run on one transcript of c_n words         *)
(*   RetrySpec  retryWithBackoff run on one wrapped operation              *)
(*   UrlSpec    getVideoId run on the characters of one locator            *)
(*   Spec       one process running the program again and again            *)
(*   RaceSpec   two processes at once on one video locator                 *)
(*   PodSpec    two processes on podcast locators while the feed moves     *)
(*   FindSpec   --find: restoreSession run on one content table            *)
(*   ZipSpec    zip, then unzip, run on one text                           *)
(*   CosSpec    cosineSimilarity run on two vectors                        *)
(***************************************************************************)
EXTENDS Integers, Sequences, FiniteSets, TLC

VARIABLES
    \* chunkTranscript (youtube.ts 423-438)
    c_pc,        \* "idle" | "entry" | "loop" | "done" | "crashed"
    c_n,         \* words.length
    c_start,     \* let start
    c_chunks,    \* const chunks, each chunk the word interval [from, to)
    \* retryWithBackoff (youtube.ts 379-418)
    r_pc,        \* "idle" | "call" | "sleep" | "returned" | "raised"
    r_max,       \* maxRetries
    r_attempt,   \* let attempt
    r_lastError, \* let lastError
    r_delay,     \* const delay of the sleep in progress
    r_thrown,    \* what the helper threw
    r_log,       \* what happened so far: "rate" | "fatal" | "ok" | "sleep"
    r_slept,     \* the delays of the sleeps so far, in order
    \* transcripts.sqlite (youtube.ts 151-182) and ./tmp
    content,     \* table content, rows in rowid order
    qa,          \* table qa, rows in rowid order
    qa_seq,      \* sqlite_sequence of qa: the largest id ever given
    tmp,         \* video ids that have files in ./tmp
    now,         \* CURRENT_TIMESTAMP
    \* the podcast directory (youtube.ts 276-283, 319-326)
    feed,        \* channel.item of the feed the directory lookup leads to
    \* one run of the program per process (youtube.ts 212-372, 658-890)
    pc,          \* where each process stands
    loc,         \* its locals
    ret,         \* what its last operation returned or threw
    used,        \* the collaborators its current operation has invoked
    s_calls,     \* the generateText calls summarize has issued in it
    g_first,     \* per content_id, what the call that stored the row returned
    \* the head of getOrCreateTranscript on one locator (youtube.ts 216-217)
    u_pc,        \* "idle" | "entry" | "matched" | "done"
    u_url,       \* url, the sequence of its characters
    u_id,        \* const videoId
    u_type,      \* the path taken: "youtube" | "apple_podcast"
    \* --find: restoreSession (youtube.ts 564-582, 740-748)
    f_pc,        \* "idle" | "entry" | "embed" | "rows" | "await" | "pick" | "done"
    f_rows,      \* const rows
    f_navEmb,    \* const navEmb
    f_replies,   \* what the provider answers to the request of each row
    f_order,     \* the row requests that have completed, in completion order
    f_sims,      \* const sims, the embeddings of the summaries
    f_best,      \* let best
    f_requests,  \* the embedding requests issued so far
    f_ret,       \* what --find returned or threw
    \* zip and unzip on one text (youtube.ts 10-19)
    z_pc,        \* "idle" | "entry" | "zipped" | "done"
    z_text,      \* txt, the argument of zip
    z_blob,      \* what zip returned
    z_out,       \* what unzip returned for it
    \* cosineSimilarity on two vectors (youtube.ts 549-554)
    k_pc,        \* "idle" | "entry" | "done"
    k_a,         \* a
    k_b,         \* b
    k_out        \* the number returned

chunkVars == <<c_pc, c_n, c_start, c_chunks>>
retryVars == <<r_pc, r_max, r_attempt, r_lastError, r_delay, r_thrown, r_log, r_slept>>
dbVars == <<content, qa, qa_seq, tmp, now>>
procVars == <<pc, loc, ret, used, s_calls, g_first>>
urlVars == <<u_pc, u_url, u_id, u_type>>
findVars == <<f_pc, f_rows, f_navEmb, f_replies, f_order, f_sims, f_best, f_requests, f_ret>>
zipVars == <<z_pc, z_text, z_blob, z_out>>
cosVars == <<k_pc, k_a, k_b, k_out>>
vars == <<chunkVars, retryVars, dbVars, feed, procVars, urlVars, findVars, zipVars, cosVars>>

Min(a, b) == IF a <= b THEN a ELSE b

Last(s) == s[Len(s)]

(***************************************************************************)
(* chunkTranscript                                                         *)
(***************************************************************************)
MAX_WORDS_PER_CHUNK == 15000
CHUNK_OVERLAP_WORDS == 200

\* Largest transcript, in words, that ChunkSpec splits.
MaxWords == 20000
\* Chunks the array can hold before the runtime gives up on growing it.
MaxChunks == 5

ChunkIdle ==
    /\ c_pc = "idle"
    /\ c_n = 0
    /\ c_start = 0
    /\ c_chunks = <<>>

\* words = transcript.split(/\s+/): at least one element, whatever the string.
ChunkInit ==
    /\ c_pc = "entry"
    /\ c_n \in 1..MaxWords
    /\ c_start = 0
    /\ c_chunks = <<>>

\* Lines 424-430: the short transcript is returned whole.
ChunkEntry ==
    /\ c_pc = "entry"
    /\ IF c_n <= MAX_WORDS_PER_CHUNK
         THEN /\ c_chunks' = <<[from |-> 0, to |-> c_n]>>
              /\ c_pc' = "done"
         ELSE /\ c_chunks' = <<>>
              /\ c_pc' = "loop"
    /\ c_start' = 0
    /\ UNCHANGED c_n

\* The break of line 435.
ChunkBreak(start, n) == start >= n

\* Lines 431-436: one pass of the while loop.
ChunkIter ==
    /\ c_pc = "loop"
    /\ Len(c_chunks) < MaxChunks
    /\ IF c_start < c_n
         THEN LET end == Min(c_start + MAX_WORDS_PER_CHUNK, c_n)
                  start == end - CHUNK_OVERLAP_WORDS
              IN  /\ c_chunks' = Append(c_chunks, [from |-> c_start, to |-> end])
                  /\ c_start' = start
                  /\ c_pc' = IF ChunkBreak(start, c_n) THEN "done" ELSE "loop"
         ELSE /\ c_pc' = "done"
              /\ UNCHANGED <<c_start, c_chunks>>
    /\ UNCHANGED c_n

\* chunks.push on an array that cannot grow any further throws.
ChunkOutOfMemory ==
    /\ c_pc = "loop"
    /\ Len(c_chunks) >= MaxChunks
    /\ c_pc' = "crashed"
    /\ UNCHANGED <<c_n, c_start, c_chunks>>

\* C1: for N > B chunkTranscript returns (it never exhausts memory), and
\* chunking stops once the end of the word sequence has been reached: after a
\* chunk that ends at word N has been pushed the loop is over.
ChunkingStopsAtEnd ==
    /\ c_pc # "crashed"
    /\ (c_chunks # <<>> /\ Last(c_chunks).to = c_n) => c_pc = "done"

\* C2: for N > B chunk i (0-based) starts at word i*(B-O) and spans
\* min(B, N - start) words, the last chunk is the first one that ends at N,
\* and 20,000 words give exactly 2 chunks, the second starting at word 14,800.
ChunkLayout ==
    c_n > MAX_WORDS_PER_CHUNK =>
        /\ \A i \in 1..Len(c_chunks) :
              LET from == (i - 1) * (MAX_WORDS_PER_CHUNK - CHUNK_OVERLAP_WORDS)
              IN  /\ c_chunks[i].from = from
                  /\ c_chunks[i].to - from = Min(MAX_WORDS_PER_CHUNK, c_n - from)
                  /\ c_chunks[i].to = c_n => i = Len(c_chunks)
        /\ c_n = 20000 =>
              /\ Len(c_chunks) <= 2
              /\ c_pc = "done" => /\ Len(c_chunks) = 2
                                  /\ c_chunks[2].from = 14800

\* Words chunk i and chunk i+1 have in common.
SharedWords(chunks, i) ==
    LET lo == IF chunks[i].from >= chunks[i + 1].from
                THEN chunks[i].from ELSE chunks[i + 1].from
        hi == Min(chunks[i].to, chunks[i + 1].to)
    IN  IF hi > lo THEN hi - lo ELSE 0

\* C3: for N > B the call ends by returning chunks that together contain every
\* word index 0..N-1, each adjacent pair sharing exactly O words.
ChunkCoverage ==
    (c_n > MAX_WORDS_PER_CHUNK /\ c_pc \in {"done", "crashed"}) =>
        /\ c_pc = "done"
        /\ \A w \in 0..(c_n - 1) :
              \E i \in 1..Len(c_chunks) : c_chunks[i].from <= w /\ w < c_chunks[i].to
        /\ \A i \in 1..(Len(c_chunks) - 1) :
              SharedWords(c_chunks, i) = CHUNK_OVERLAP_WORDS

(***************************************************************************)
(* retryWithBackoff                                                        *)
(***************************************************************************)
DefaultMaxRetries == 6
DefaultInitialDelay == 5000

\* Largest maxRetries RetrySpec passes; the default lies inside.
MaxRetriesArg == 7

\* A message is the sequence of its fragments; message.includes(x) asks for
\* the fragment x, case-sensitively.
Includes(message, fragment) == \E i \in DOMAIN message : message[i] = fragment

Messages ==
    { <<>>,
      <<"Too Many Requests">>,
      <<"HTTP", "429">>,
      <<"Rate limit", "exceeded">>,
      <<"too many requests">>,
      <<"socket hang up">> }

\* What the wrapped operation may throw: message, status, statusCode and
\* cause.message (<<>> and 0 where the property is absent).
Errors ==
    [ message : Messages,
      status : {0, 429, 500},
      statusCode : {0, 429},
      cause : {<<>>, <<"quota exhausted">>} ]

\* lastError before any failure.
Undefined == [message |-> <<"undefined">>, status |-> 0, statusCode |-> 0, cause |-> <<>>]

\* Values of Math.random() * 1000 the model draws: the ends of [0, 1000).
JitterSamples == {0, 999}

RECURSIVE Pow2(_)
Pow2(n) == IF n <= 0 THEN 1 ELSE 2 * Pow2(n - 1)

\* Lines 392-398.
IsRateLimitError(err) ==
    \/ Includes(err.message, "Too Many Requests")
    \/ Includes(err.message, "429")
    \/ Includes(err.message, "Rate limit")
    \/ err.status = 429
    \/ err.statusCode = 429

\* Line 402: err?.cause?.message || err?.message || String(err).
ErrorDetails(err) ==
    IF err.cause # <<>> THEN err.cause
    ELSE IF err.message # <<>> THEN err.message
    ELSE <<"Error">>

\* Line 403: new Error(`Gemini API Error: ${errorDetails}`).
GeminiApiError(err) ==
    [ message |-> <<"Gemini API Error: ">> \o ErrorDetails(err),
      status |-> 0, statusCode |-> 0, cause |-> <<>> ]

IsLastAttemptLate(attempt, maxRetries) == attempt = maxRetries

\* Line 400, right operand: attempt === maxRetries - 1.
IsLastAttempt(attempt, maxRetries) == attempt = maxRetries - 1

GivesUpOnLastOnly(err, attempt, maxRetries) == IsLastAttempt(attempt, maxRetries)

\* Line 400: !isRateLimitError || attempt === maxRetries - 1.
GivesUp(err, attempt, maxRetries) ==
    ~IsRateLimitError(err) \/ IsLastAttempt(attempt, maxRetries)

BackoffDelayLinear(attempt, jitter) == DefaultInitialDelay * (attempt + 1) + jitter

\* Lines 407-409.
BackoffDelay(attempt, jitter) == DefaultInitialDelay * Pow2(attempt) + jitter

RetryIdle ==
    /\ r_pc = "idle"
    /\ r_max = 0
    /\ r_attempt = 0
    /\ r_lastError = Undefined
    /\ r_delay = 0
    /\ r_thrown = Undefined
    /\ r_log = <<>>
    /\ r_slept = <<>>

\* Every call site passes fn alone, so maxRetries is 6; the claims speak of
\* maxRetries in general and the model runs the helper for 1..MaxRetriesArg.
RetryInit ==
    /\ r_pc = "call"
    /\ r_max \in 1..MaxRetriesArg
    /\ r_attempt = 0
    /\ r_lastError = Undefined
    /\ r_delay = 0
    /\ r_thrown = Undefined
    /\ r_log = <<>>
    /\ r_slept = <<>>

\* Lines 385-414 and 417: the loop test, one await fn() and its catch block up
\* to the throw or to the start of the sleep.
RetryAttempt ==
    /\ r_pc = "call"
    /\ IF r_attempt < r_max
         THEN \/ /\ r_pc' = "returned"
                 /\ r_log' = Append(r_log, "ok")
                 /\ UNCHANGED <<r_lastError, r_delay, r_thrown, r_slept>>
              \/ \E err \in Errors, jitter \in JitterSamples :
                    LET kind == IF IsRateLimitError(err) THEN "rate" ELSE "fatal"
                    IN  /\ r_lastError' = err
                        /\ IF GivesUp(err, r_attempt, r_max)
                             THEN /\ r_thrown' = GeminiApiError(err)
                                  /\ r_pc' = "raised"
                                  /\ r_log' = Append(r_log, kind)
                                  /\ UNCHANGED <<r_delay, r_slept>>
                             ELSE /\ r_delay' = BackoffDelay(r_attempt, jitter)
                                  /\ r_slept' = Append(r_slept, r_delay')
                                  /\ r_pc' = "sleep"
                                  /\ r_log' = r_log \o <<kind, "sleep">>
                                  /\ UNCHANGED r_thrown
         ELSE /\ r_thrown' = r_lastError
              /\ r_pc' = "raised"
              /\ UNCHANGED <<r_lastError, r_delay, r_log, r_slept>>
    /\ UNCHANGED <<r_max, r_attempt>>

\* Line 414 resolves; attempt++ of line 385.
RetryWake ==
    /\ r_pc = "sleep"
    /\ r_attempt' = r_attempt + 1
    /\ r_delay' = 0
    /\ r_pc' = "call"
    /\ UNCHANGED <<r_max, r_lastError, r_thrown, r_log, r_slept>>

\* Invocations of the wrapped operation so far.
Calls(log) == Cardinality({i \in DOMAIN log : log[i] # "sleep"})

Sleeps(log) == Cardinality({i \in DOMAIN log : log[i] = "sleep"})

\* The raised error is the provider error that carries the message of err
\* (of its cause, when it has one).
IsProviderErrorOf(thrown, err) ==
    /\ Len(thrown.message) >= 1
    /\ thrown.message[1] = "Gemini API Error: "
    /\ LET carried == Tail(thrown.message)
       IN  /\ err.cause # <<>> => carried = err.cause
           /\ (err.cause = <<>> /\ err.message # <<>>) => carried = err.message

\* C9: when every attempt fails with a rate-limit signal the helper invokes the
\* operation exactly maxRetries times, sleeps between consecutive attempts (and
\* not after the last) and then raises the provider error of the last failure.
RetryExhaustion ==
    (r_pc = "raised" /\ \A i \in DOMAIN r_log : r_log[i] \in {"rate", "sleep"}) =>
        /\ Calls(r_log) = r_max
        /\ Len(r_log) = 2 * r_max - 1
        /\ \A i \in DOMAIN r_log : r_log[i] = (IF i % 2 = 1 THEN "rate" ELSE "sleep")
        /\ IsProviderErrorOf(r_thrown, r_lastError)

RetryExhaustionReached ==
    /\ r_pc = "raised"
    /\ r_max = DefaultMaxRetries
    /\ Calls(r_log) = DefaultMaxRetries
    /\ Sleeps(r_log) = DefaultMaxRetries - 1
    /\ \A i \in DOMAIN r_log : r_log[i] # "fatal"

\* C10: an attempt that fails with an error that is no rate-limit signal is
\* the last thing the helper does before it raises the provider error of that
\* failure: no sleep and no invocation follows it, however many rate-limited
\* attempts came before.
RetryFatalIsFinal ==
    \A i \in DOMAIN r_log :
        r_log[i] = "fatal" =>
            /\ i = Len(r_log)
            /\ r_pc = "raised"
            /\ ~IsRateLimitError(r_lastError)
            /\ IsProviderErrorOf(r_thrown, r_lastError)

RetryFatalAfterRateLimits ==
    /\ r_pc = "raised"
    /\ Len(r_log) = 5
    /\ r_log[5] = "fatal"
    /\ Calls(r_log) = 3
    /\ r_max = DefaultMaxRetries

(***************************************************************************)
(* getVideoId on the characters of a locator                               *)
(***************************************************************************)
\* [A-Za-z0-9_-], line 115.
IdChars ==
    {"a", "b", "c", "d", "e", "f", "g", "h", "i", "j", "k", "l", "m", "n", "o", "p", "q", "r", "s", "t", "u", "v", "w", "x", "y", "z"}
    \cup {"A", "B", "C", "D", "E", "F", "G", "H", "I", "J", "K", "L", "M", "N", "O", "P", "Q", "R", "S", "T", "U", "V", "W", "X", "Y", "Z"}
    \cup {"0", "1", "2", "3", "4", "5", "6", "7", "8", "9"}
    \cup {"_", "-"}

\* Characters of the token, {11} in line 115.
TokenLength == 11

\* (?:v=|\/) at position i: the number of characters it takes, 0 for no match.
PrefixAt(url, i) ==
    IF url[i] = "v" /\ i + 1 <= Len(url) /\ url[i + 1] = "=" THEN 2
    ELSE IF url[i] = "/" THEN 1
    ELSE 0

\* The pattern of line 115 matches at position i.
MatchesAt(url, i) ==
    LET k == PrefixAt(url, i)
    IN  /\ k > 0
        /\ i + k + TokenLength - 1 <= Len(url)
        /\ \A j \in 0..(TokenLength - 1) : url[i + k + j] \in IdChars

\* match?.[1] for the match at position i.
Group1(url, i) ==
    SubSeq(url, i + PrefixAt(url, i), i + PrefixAt(url, i) + TokenLength - 1)

MatchVideoIdParamFirst(url) ==
    LET hits == {i \in DOMAIN url : MatchesAt(url, i)}
        params == {i \in hits : PrefixAt(url, i) = 2}
        pick(S) == CHOOSE i \in S : \A j \in S : i <= j
    IN  IF params # {} THEN Group1(url, pick(params))
        ELSE IF hits # {} THEN Group1(url, pick(hits))
        ELSE <<>>

\* Lines 114-117 on the characters of url: String.prototype.match gives the
\* leftmost match; <<>> is "".
MatchVideoId(url) ==
    LET hits == {i \in DOMAIN url : MatchesAt(url, i)}
    IN  IF hits = {} THEN <<>>
        ELSE Group1(url, CHOOSE i \in hits : \A j \in hits : i <= j)

\* The parts locators are put together from.
UrlParts ==
    { <<"/">>, <<"?">>, <<".">>, <<"v", "=">>,
      <<"a", "b", "c", "1", "2", "3", "4", "5", "6", "7", "8">>,
      <<"s", "o", "m", "e", "-", "l", "o", "n", "g", "-", "n", "a", "m", "e">>,
      <<"w", "a", "t", "c", "h">>,
      <<"i", "d", "7", "7">> }

\* Most parts in a locator.
MaxParts == 4

ExampleUrl ==
    <<"h", "t", "t", "p", "s", ":", "/", "/", "e", "x", "a", "m", "p", "l", "e", ".", "c", "o", "m", "/", "w", "a", "t", "c", "h", "?", "v", "=", "a", "b", "c", "1", "2", "3", "4", "5", "6", "7", "8">>

RECURSIVE PartsUpTo(_)
PartsUpTo(n) ==
    IF n = 0 THEN {<<>>}
    ELSE LET shorter == PartsUpTo(n - 1)
         IN  shorter \cup {u \o part : u \in shorter, part \in UrlParts}

Urls == PartsUpTo(MaxParts) \cup {ExampleUrl}

UrlIdle ==
    /\ u_pc = "idle"
    /\ u_url = <<>>
    /\ u_id = <<>>
    /\ u_type = ""

UrlInit ==
    /\ u_pc = "entry"
    /\ u_url \in Urls
    /\ u_id = <<>>
    /\ u_type = ""

\* Line 216.
UrlGetVideoId ==
    /\ u_pc = "entry"
    /\ u_id' = MatchVideoId(u_url)
    /\ u_pc' = "matched"
    /\ UNCHANGED <<u_url, u_type>>

\* Line 217: a non-empty videoId takes the video path, "" the podcast path.
UrlBranch ==
    /\ u_pc = "matched"
    /\ u_type' = IF u_id # <<>> THEN "youtube" ELSE "apple_podcast"
    /\ u_pc' = "done"
    /\ UNCHANGED <<u_url, u_id>>

(***************************************************************************)
(* The cache and getOrCreateTranscript                                     *)
(***************************************************************************)
\* Each process is one run of the program on the shared transcripts.sqlite.
Procs == {"p1", "p2"}

\* Latest CURRENT_TIMESTAMP the model reaches.
MaxClock == 1
\* Rows the qa table is given in all.
MaxQA == 2

\* A text is its code units and the length of text.split(/\s+/); a stored
\* transcript is the gzip of its UTF-8 bytes.
Text(units, words) == [type |-> "text", units |-> units, words |-> words]

Null == [type |-> "null", units |-> <<>>, words |-> 0]

AlwaysFalsy(t) == TRUE

\* !transcript
Falsy(t) == t.type = "null" \/ (t.type = "text" /\ t.units = <<>>)

\* Line 11, TextEncoder.encode: an unpaired surrogate ("HS") becomes U+FFFD ("RC").
Utf8Encode(units) ==
    [i \in DOMAIN units |-> IF units[i] = "HS" THEN "RC" ELSE units[i]]

\* Lines 16-18, new TextDecoder().decode: a leading byte-order mark is dropped.
Utf8Decode(bytes) ==
    IF bytes # <<>> /\ bytes[1] = "BOM" THEN Tail(bytes) ELSE bytes

\* Lines 10-13.
zip(txt) == [type |-> "gzip", units |-> Utf8Encode(txt.units), words |-> txt.words]

\* Lines 15-19.
unzip(blob) == [type |-> "text", units |-> Utf8Decode(blob.units), words |-> blob.words]

\* A subtitle file: its lines, each the sequence of its fragments, and the
\* number of words its cue text holds. NoFile is the file yt-dlp did not write.
Vtt(lines, words) == [exists |-> TRUE, lines |-> lines, words |-> words]

NoFile == [exists |-> FALSE, lines |-> <<>>, words |-> 0]

Digits == {"1", "2"}

\* Lines 62-68: the filter keeps a line that is not empty, does not start with
\* WEBVTT, is not a cue index and holds no timestamp arrow.
KeepsVttLine(line) ==
    /\ line # <<>>
    /\ line[1] # "WEBVTT"
    /\ ~(Len(line) = 1 /\ line[1] \in Digits)
    /\ ~Includes(line, "-->")

RECURSIVE Join(_)
\* Lines 69-71: the kept lines joined into one text.
Join(lines) ==
    IF lines = <<>> THEN <<>> ELSE Head(lines) \o Join(Tail(lines))

\* Lines 57-71: the plain text of a subtitle file; "".split(/\s+/) is [""].
VttToText(vtt) ==
    LET kept == Join(SelectSeq(vtt.lines, KeepsVttLine))
    IN  Text(kept, IF kept = <<>> THEN 1 ELSE vtt.words)

Cue == <<"00:01", "-->", "00:02">>

Vtts ==
    { Vtt(<<<<"WEBVTT">>, <<>>, Cue, <<"c">>>>, 900),
      Vtt(<<<<"WEBVTT">>, <<>>, <<"1">>, Cue, <<"c">>, <<>>, <<"2">>, Cue, <<"c">>>>,
          MAX_WORDS_PER_CHUNK + 1),
      Vtt(<<<<"WEBVTT">>, <<>>>>, 0) }

\* One run of yt-dlp (lines 48-54): its exit code, its stderr and the
\* subtitle file it left for the video id.
YtDlpRun(exit, stderr, vtt) == [exit |-> exit, stderr |-> stderr, vtt |-> vtt]

NoRun == YtDlpRun(-1, <<>>, NoFile)

YtDlpRuns ==
    {YtDlpRun(0, <<>>, v) : v \in Vtts \cup {NoFile}}
    \cup {YtDlpRun(1, e, NoFile) :
            e \in { <<"ERROR: ", "live event will begin", " in 2 hours">>,
                    <<"ERROR: ", "This video is unavailable">>,
                    <<"ERROR: ", "Sign in to confirm your age">>,
                    <<>> }}

LiveStreamError == "Cannot process upcoming live streams."

UnavailableError == "Video is unavailable or private."

\* What fetchCaptionsWithYtDlp gives: the message it throws ("" when it
\* returns) and the value it returns.
CaptionResult(threw, text) == [threw |-> threw, text |-> text]

CaptionErrorsFallThrough(run) ==
    IF run.exit # 0 \/ ~run.vtt.exists
      THEN CaptionResult("", Null)
      ELSE LET transcript == VttToText(run.vtt)
           IN  CaptionResult("", IF transcript.units = <<>> THEN Null ELSE transcript)

\* Lines 36-90. A failed yt-dlp carries its stderr (76-86); a subtitle file
\* that is not there fails the read of line 57 with an error that has none.
fetchCaptionsWithYtDlp(run) ==
    IF run.exit # 0
      THEN IF Includes(run.stderr, "live event will begin")
             THEN CaptionResult(LiveStreamError, Null)
           ELSE IF Includes(run.stderr, "This video is unavailable")
             THEN CaptionResult(UnavailableError, Null)
           ELSE CaptionResult("", Null)
    ELSE IF ~run.vtt.exists
      THEN CaptionResult("", Null)
    ELSE LET transcript == VttToText(run.vtt)
         IN  CaptionResult("", IF transcript.units = <<>> THEN Null ELSE transcript)

\* The texts caption extraction can hand back: trimmed and non-empty (line 73).
CaptionTexts ==
    {fetchCaptionsWithYtDlp(run).text : run \in YtDlpRuns} \ {Null}

\* The transcriber's stdout, trimmed; it may be empty (line 127).
WhisperTexts == {Text(<<"w">>, 900), Text(<<>>, 1)}

FeedTexts == {Text(<<"f">>, 900)}

Summaries == {"S1", "S2"}

\* Locators: the 11-character token getVideoId finds, the /id<digits> segment
\* and the i=<digits> parameter ("" where the locator has none).
VideoUrl == [v |-> "dQw4w9WgXcQ", pod |-> "", ep |-> ""]

PodcastUrl == [v |-> "", pod |-> "77", ep |-> "5"]

BadUrl == [v |-> "", pod |-> "", ep |-> ""]

\* A podcast locator without i=<digits>, and one whose i= no guid holds.
NoEpisodeUrl == [v |-> "", pod |-> "77", ep |-> ""]

MissingEpisodeUrl == [v |-> "", pod |-> "77", ep |-> "9"]

Locators == {VideoUrl, PodcastUrl, BadUrl}

PodLocators == {PodcastUrl, NoEpisodeUrl, MissingEpisodeUrl, BadUrl}

\* An item of channel.item: guid[0]._ as its fragments (NoGuid where the guid
\* has no _ property), title[0], the enclosure url and the url of
\* podcast:transcript ("" where the item has none).
Item(guid, title, enclosure, pointer) ==
    [guid |-> guid, title |-> title, enclosure |-> enclosure, pointer |-> pointer]

NoGuid == <<>>

NoItem == Item(NoGuid, "", "", "")

\* A transcript url that answers and one that does not (line 337).
GoodPointer == "https://cdn.example/5.vtt"

DeadPointer == "https://cdn.example/gone.vtt"

Item5 == Item(<<"guid-", "5">>, "Episode 5", "https://cdn.example/5.mp3", GoodPointer)

Item6 == Item(<<"guid-", "6">>, "Episode 6", "", "")

Item7 == Item(NoGuid, "Episode 7", "https://cdn.example/7.mp3", DeadPointer)

Items == {Item5, Item6, Item7}

\* Most items the feed is given.
MaxFeed == 2

\* The feed the directory serves while nothing is published.
DefaultFeed == <<Item5>>

\* it.guid?.[0]?._?.includes(episodeId), lines 287 and 330-331: every string
\* includes "".
GuidIncludes(guid, episodeId) ==
    /\ guid # NoGuid
    /\ episodeId = "" \/ Includes(guid, episodeId)

\* Array.prototype.find with that test: the index of the first item whose
\* guid holds the episode id, 0 for none.
FindByGuid(items, episodeId) ==
    IF \E i \in DOMAIN items : GuidIncludes(items[i].guid, episodeId)
      THEN CHOOSE i \in DOMAIN items :
              /\ GuidIncludes(items[i].guid, episodeId)
              /\ \A j \in 1..(i - 1) : ~GuidIncludes(items[j].guid, episodeId)
      ELSE 0

\* Lines 286-289: the first item whose guid holds the episode id, else the
\* first item of the feed; NoItem is undefined, what an empty feed gives.
findEpisode(items, episodeId) ==
    LET i == FindByGuid(items, episodeId)
    IN  IF i # 0 THEN items[i]
        ELSE IF items # <<>> THEN items[1]
        ELSE NoItem

\* Lines 114-117 on a locator given by what the patterns find in it (v is the
\* token MatchVideoId finds); a content id is the sequence of its fragments,
\* <<>> is "".
getVideoId(url) == IF url.v = "" THEN <<>> ELSE <<url.v>>

\* Line 305.
PodcastContentId(info) ==
    <<"podcast_", info.podcastId, "_episode_", info.episodeId>>

\* Lines 290-299: what parsePodcastUrl returns for the episode it found.
PodcastInfo(url, episode) ==
    [ podcastId |-> url.pod,
      episodeId |-> IF url.ep # "" THEN url.ep ELSE episode.title,
      title |-> episode.title,
      author |-> "Host",
      audioUrl |-> episode.enclosure ]

\* Lines 329-341: the item transcriptFromRSS reads the pointer of.
TranscriptEpisode(items, episodeId) ==
    LET i == FindByGuid(items, episodeId)
    IN  IF i # 0 THEN items[i] ELSE NoItem

\* A row of content, and the ContentData a call returns (created_at -1 and
\* audio_url "" where the object has no such property).
Data(id, type, title, author, audio, transcript, summary, at) ==
    [ content_id |-> id, content_type |-> type, title |-> title,
      author |-> author, audio_url |-> audio, transcript |-> transcript,
      summary |-> summary, created_at |-> at ]

NoData == Data(<<>>, "", "", "", "", Null, "", -1)

\* The content ids the locators lead to.
ContentIds ==
    {getVideoId(VideoUrl)}
    \cup {PodcastContentId(PodcastInfo(url, it)) : url \in PodLocators, it \in Items}

\* The locals of a call: its locator, the ContentData it is building, the
\* yt-dlp run it saw and the feed item it resolved.
Locals(url, data) == [url |-> url, data |-> data, run |-> NoRun, episode |-> NoItem]

NoLoc == Locals(BadUrl, NoData)

\* What an operation gave its caller: how it ended, the ContentData returned,
\* the message thrown, the counts --delete printed, the answer printed at line
\* 877 and the ids of the rows exportQA wrote, in the order it wrote them.
NoRet ==
    [ status |-> "none", data |-> NoData, error |-> "", qa |-> 0, rows |-> 0,
      answer |-> "", list |-> <<>> ]

Returned(status, data) == [NoRet EXCEPT !.status = status, !.data = data]

Threw(message) == [NoRet EXCEPT !.status = "error", !.error = message]

\* db.query("SELECT * FROM content WHERE content_id = ? AND content_type = ..."):
\* the matching rows; .get() takes the first or gives null.
SelectContent(table, id, type) ==
    SelectSeq(table, LAMBDA r : r.content_id = id /\ r.content_type = type)

LookupVideoWrongType(table, id) == SelectContent(table, id, "video")

\* Lines 218-222.
LookupVideo(table, id) == SelectContent(table, id, "youtube")

\* Lines 306-310.
LookupPodcast(table, id) == SelectContent(table, id, "apple_podcast")

\* Rows of any type with this content_id (lines 711-713, 816-817).
RowsOf(table, id) == SelectSeq(table, LAMBDA r : r.content_id = id)

\* Lines 224-225: the transcript is inflated.
VideoHit(existing) == [existing EXCEPT !.transcript = unzip(@)]

\* Line 311: the row as it is stored.
PodcastHit(existing) == existing

InsertContentUnchecked(table, row) == [ok |-> TRUE, table |-> Append(table, row)]

\* INSERT INTO content: content_id is the PRIMARY KEY (line 155), a second row
\* with the same content_id is refused and the table stays as it is.
InsertContent(table, row) ==
    IF RowsOf(table, row.content_id) # <<>>
      THEN [ok |-> FALSE, table |-> table]
      ELSE [ok |-> TRUE, table |-> Append(table, row)]

\* The state before the first run, the rows of content apart.
PipeRest ==
    /\ qa = <<>>
    /\ qa_seq = 0
    /\ tmp = {}
    /\ now = 0
    /\ pc = [p \in Procs |-> "idle"]
    /\ loc = [p \in Procs |-> NoLoc]
    /\ ret = [p \in Procs |-> NoRet]
    /\ used = [p \in Procs |-> {}]
    /\ s_calls = [p \in Procs |-> <<>>]
    /\ g_first = [id \in ContentIds |-> NoData]
    /\ feed = DefaultFeed

PipeInit ==
    /\ content = <<>>
    /\ PipeRest

\* Lines 216-229 for a video locator, line 302 starts for any other.
Begin(p, url) ==
    /\ pc[p] = "idle"
    /\ LET videoId == getVideoId(url)
           existing == LookupVideo(content, videoId)
       IN  IF videoId # <<>>
             THEN IF existing # <<>>
                    THEN /\ pc' = [pc EXCEPT ![p] = "done"]
                         /\ ret' = [ret EXCEPT ![p] = Returned("hit", VideoHit(existing[1]))]
                         /\ used' = [used EXCEPT ![p] = {}]
                         /\ s_calls' = [s_calls EXCEPT ![p] = <<>>]
                         /\ loc' = [loc EXCEPT ![p] = NoLoc]
                    ELSE /\ pc' = [pc EXCEPT ![p] = "captions"]
                         /\ ret' = [ret EXCEPT ![p] = NoRet]
                         /\ used' = [used EXCEPT ![p] = {"title"}]
                         /\ s_calls' = [s_calls EXCEPT ![p] = <<>>]
                         /\ loc' = [loc EXCEPT ![p] =
                               Locals(url, [NoData EXCEPT !.content_id = videoId,
                                                          !.content_type = "youtube"])]
             ELSE /\ pc' = [pc EXCEPT ![p] = "resolve"]
                  /\ ret' = [ret EXCEPT ![p] = NoRet]
                  /\ used' = [used EXCEPT ![p] = {}]
                  /\ s_calls' = [s_calls EXCEPT ![p] = <<>>]
                  /\ loc' = [loc EXCEPT ![p] = Locals(url, NoData)]
    /\ UNCHANGED <<feed, dbVars, g_first>>

\* The call rejects with this message; nothing it held is kept.
Reject(p, message) ==
    /\ pc' = [pc EXCEPT ![p] = "done"]
    /\ ret' = [ret EXCEPT ![p] = Threw(message)]
    /\ loc' = [loc EXCEPT ![p] = NoLoc]

\* Line 232, fetchCaptionsWithYtDlp (36-90) on one run of yt-dlp. A run that
\* wrote no subtitle file may still have left other files named by the id.
Captions(p, run) ==
    /\ pc[p] = "captions"
    /\ used' = [used EXCEPT ![p] = @ \cup {"captions"}]
    /\ UNCHANGED s_calls
    /\ IF run.vtt.exists
         THEN tmp' = tmp \cup {loc[p].data.content_id}
         ELSE tmp' \in {tmp, tmp \cup {loc[p].data.content_id}}
    /\ LET res == fetchCaptionsWithYtDlp(run)
       IN  IF res.threw # ""
             THEN Reject(p, res.threw)
             ELSE /\ loc' = [loc EXCEPT ![p].data.transcript = res.text,
                                        ![p].run = run]
                  /\ pc' = [pc EXCEPT ![p] =
                        IF Falsy(res.text) THEN "transcribe" ELSE "cleanup"]
                  /\ UNCHANGED ret
    /\ UNCHANGED <<feed, content, qa, qa_seq, now, g_first>>

\* Lines 235 and 348, fetchOrTranscribe (123-134).
Transcribe(p) ==
    /\ pc[p] = "transcribe"
    /\ used' = [used EXCEPT ![p] = @ \cup {"engine"}]
    /\ UNCHANGED s_calls
    /\ \/ \E t \in WhisperTexts :
            /\ loc' = [loc EXCEPT ![p].data.transcript = t]
            /\ pc' = [pc EXCEPT ![p] =
                  IF loc[p].data.content_type = "youtube" THEN "cleanup" ELSE "summarize"]
            /\ UNCHANGED ret
       \/ Reject(p, "Transcriber failed")
    /\ UNCHANGED <<feed, dbVars, g_first>>

\* Line 238, cleanupTmpFiles (96-106).
Cleanup(p) ==
    /\ pc[p] = "cleanup"
    /\ tmp' = tmp \ {loc[p].data.content_id}
    /\ used' = [used EXCEPT ![p] = @ \cup {"cleanup"}]
    /\ UNCHANGED s_calls
    /\ pc' = [pc EXCEPT ![p] = "title"]
    /\ UNCHANGED <<feed, content, qa, qa_seq, now, loc, ret, g_first>>

\* What axios.get of line 110 rejects with.
TitleError == "Request failed with status code 404"

\* Line 240: the oEmbed request started at line 229 settles.
Title(p) ==
    /\ pc[p] = "title"
    /\ \/ /\ loc' = [loc EXCEPT ![p].data.title = "Video title"]
          /\ pc' = [pc EXCEPT ![p] = "summarize"]
          /\ UNCHANGED ret
       \/ Reject(p, TitleError)
    /\ UNCHANGED <<feed, dbVars, used, s_calls, g_first>>

\* Line 477: chunkTranscript hands its chunks back only for a transcript it
\* does not split; on a longer one its loop never ends (ChunkSpec).
ChunkTranscriptReturns(txt) == txt.words <= MAX_WORDS_PER_CHUNK

SummaryErrorSwallowed(p, outcome) ==
    /\ loc' = [loc EXCEPT ![p].data.summary = outcome.text]
    /\ pc' = [pc EXCEPT ![p] = "insert"]
    /\ UNCHANGED ret

\* Lines 241 and 350: await summarize(transcript) gives the summary or rejects.
Summarized(p, outcome) ==
    IF outcome.ok
      THEN /\ loc' = [loc EXCEPT ![p].data.summary = outcome.text]
           /\ pc' = [pc EXCEPT ![p] = "insert"]
           /\ UNCHANGED ret
      ELSE Reject(p, outcome.text)

chunkInfoAlways(chunkNum, totalChunks) == <<chunkNum, totalChunks>>

\* Line 441: the label of the prompt, <<>> for the empty string; chunkNum and
\* totalChunks are 0 where the caller passes none.
chunkInfo(chunkNum, totalChunks) ==
    IF totalChunks # 0 /\ totalChunks > 1 THEN <<chunkNum, totalChunks>> ELSE <<>>

\* One generateText call behind retryWithBackoff: the prompt it is made with
\* (lines 445-467 or 496-518), its label and the text it is about, and what
\* the helper gave back.
Call(kind, label, input, outcome) ==
    [kind |-> kind, label |-> label, input |-> input,
     ok |-> outcome.ok, output |-> outcome.text]

\* Lines 473-481 with summarizeChunk (440-471) behind retryWithBackoff.
Summarize(p) ==
    /\ pc[p] = "summarize"
    /\ IF ChunkTranscriptReturns(loc[p].data.transcript)
         THEN /\ used' = [used EXCEPT ![p] = @ \cup {"llm"}]
              /\ \E outcome \in [ok : {TRUE}, text : Summaries]
                                  \cup {[ok |-> FALSE, text |-> "Gemini API Error"]} :
                    /\ s_calls' = [s_calls EXCEPT ![p] =
                          Append(@, Call("chunk", chunkInfo(0, 0),
                                         loc[p].data.transcript, outcome))]
                    /\ Summarized(p, outcome)
         ELSE /\ Reject(p, "out of memory")
              /\ UNCHANGED <<used, s_calls>>
    /\ UNCHANGED <<feed, dbVars, g_first>>

\* Lines 242-255 and 351-371: the row goes in, the call returns its data.
Insert(p) ==
    /\ pc[p] = "insert"
    /\ LET data == loc[p].data
           row == [data EXCEPT !.transcript = zip(@), !.created_at = now]
           res == InsertContent(content, row)
       IN  IF res.ok
             THEN /\ content' = res.table
                  /\ pc' = [pc EXCEPT ![p] = "done"]
                  /\ ret' = [ret EXCEPT ![p] = Returned("stored", data)]
                  /\ loc' = [loc EXCEPT ![p] = NoLoc]
                  /\ g_first' = [g_first EXCEPT ![data.content_id] = data]
             ELSE /\ Reject(p, "UNIQUE constraint failed: content.content_id")
                  /\ UNCHANGED <<content, g_first>>
    /\ UNCHANGED <<feed, qa, qa_seq, tmp, now, used, s_calls>>

\* The episode id the call goes on with (line 295).
EpisodeIdOf(locals) == PodcastInfo(locals.url, locals.episode).episodeId

\* Lines 302-311, parsePodcastUrl (262-300) and the lookup that follows it.
\* The directory may give no feedUrl (280) and a request may fail; on an
\* empty feed line 290 reads the title of undefined.
Resolve(p) ==
    /\ pc[p] = "resolve"
    /\ IF loc[p].url.pod = ""
         THEN Reject(p, "Invalid podcast URL")
         ELSE \/ Reject(p, "Invalid podcast URL")
              \/ Reject(p, "Network Error")
              \/ LET episode == findEpisode(feed, loc[p].url.ep)
                     info == PodcastInfo(loc[p].url, episode)
                     contentId == PodcastContentId(info)
                     existing == LookupPodcast(content, contentId)
                 IN  IF episode = NoItem
                       THEN Reject(p, "undefined is not an object")
                     ELSE IF existing # <<>>
                       THEN /\ pc' = [pc EXCEPT ![p] = "done"]
                            /\ ret' = [ret EXCEPT ![p] = Returned("hit", PodcastHit(existing[1]))]
                            /\ loc' = [loc EXCEPT ![p] = NoLoc]
                       ELSE /\ pc' = [pc EXCEPT ![p] = "rss"]
                            /\ loc' = [loc EXCEPT
                                  ![p].data = Data(contentId, "apple_podcast", info.title,
                                                   info.author, info.audioUrl, Null, "", -1),
                                  ![p].episode = episode]
                            /\ UNCHANGED ret
    /\ UNCHANGED <<feed, dbVars, used, s_calls, g_first>>

\* Line 347, transcriptFromRSS (314-345): the feed is read again ("reread"
\* once lines 319-328 are through), the item is looked for by the episode id
\* of line 295, and its pointer, if it has one, is requested ("pointer").
\* Whatever fails gives null (342-344).
Rss(p) ==
    /\ pc[p] = "rss"
    /\ LET episode == TranscriptEpisode(feed, EpisodeIdOf(loc[p]))
           Goes(tags, t) ==
               /\ used' = [used EXCEPT ![p] = @ \cup {"feed"} \cup tags]
               /\ UNCHANGED s_calls
               /\ loc' = [loc EXCEPT ![p].data.transcript = t]
               /\ pc' = [pc EXCEPT ![p] = IF Falsy(t) THEN "transcribe" ELSE "summarize"]
       IN  \/ Goes({}, Null)
           \/ IF episode = NoItem \/ episode.pointer = ""
                THEN Goes({"reread"}, Null)
              ELSE IF episode.pointer = GoodPointer
                THEN \E t \in FeedTexts : Goes({"reread", "pointer"}, t)
              ELSE Goes({"reread", "pointer"}, Null)
    /\ UNCHANGED <<feed, dbVars, ret, g_first>>

\* An episode comes out: the feed has it first.
Publish ==
    /\ Len(feed) < MaxFeed
    /\ \E it \in Items :
          /\ \A i \in DOMAIN feed : feed[i] # it
          /\ feed' = <<it>> \o feed
    /\ UNCHANGED <<dbVars, procVars>>

\* The feed drops its oldest episode.
Retire ==
    /\ feed # <<>>
    /\ feed' = SubSeq(feed, 1, Len(feed) - 1)
    /\ UNCHANGED <<dbVars, procVars>>

\* The run ends (lines 727, 736, 851, 884-889); the process may run again.
Finish(p) ==
    /\ pc[p] \in {"done", "session"}
    /\ pc' = [pc EXCEPT ![p] = "idle"]
    /\ loc' = [loc EXCEPT ![p] = NoLoc]
    /\ ret' = [ret EXCEPT ![p] = NoRet]
    /\ used' = [used EXCEPT ![p] = {}]
    /\ s_calls' = [s_calls EXCEPT ![p] = <<>>]
    /\ UNCHANGED <<feed, dbVars, g_first>>

\* Lines 802-825: interactive mode goes on with the data the call returned.
OpenSession(p) ==
    /\ pc[p] = "done"
    /\ ret[p].status \in {"hit", "stored"}
    /\ pc' = [pc EXCEPT ![p] = "session"]
    /\ loc' = [loc EXCEPT ![p] = Locals(BadUrl, ret[p].data)]
    /\ UNCHANGED <<feed, dbVars, ret, used, s_calls, g_first>>

\* Lines 815-820: a saved session is picked from the list.
PickSession(p) ==
    /\ pc[p] = "idle"
    /\ \E i \in DOMAIN content :
          /\ pc' = [pc EXCEPT ![p] = "session"]
          /\ loc' = [loc EXCEPT ![p] = Locals(BadUrl, VideoHit(content[i]))]
    /\ UNCHANGED <<feed, dbVars, ret, used, s_calls, g_first>>

\* Line 191: INSERT INTO qa, the id from AUTOINCREMENT.
StoreQA(table, seq, contentId, question, answer, at) ==
    Append(table, [ id |-> seq + 1, content_id |-> contentId,
                    question |-> question, answer |-> answer, created_at |-> at ])

\* PRAGMA foreign_keys on the connection of line 152. initDb sets none, so
\* the REFERENCES of line 171 is enforced or not as the SQLite build defaults.
ForeignKeys == BOOLEAN

FKError == "FOREIGN KEY constraint failed"

AskStoresFirst(p) ==
    /\ pc[p] = "session"
    /\ qa_seq < MaxQA
    /\ \/ /\ Reject(p, "Gemini API Error")
          /\ UNCHANGED <<qa, qa_seq>>
       \/ \E enforced \in ForeignKeys :
            IF enforced /\ RowsOf(content, loc[p].data.content_id) = <<>>
              THEN /\ Reject(p, FKError)
                   /\ UNCHANGED <<qa, qa_seq>>
              ELSE /\ qa' = StoreQA(qa, qa_seq, loc[p].data.content_id, "Q", "A", now)
                   /\ qa_seq' = qa_seq + 1
                   /\ ret' = [ret EXCEPT ![p].answer = "A"]
                   /\ UNCHANGED <<pc, loc>>
    /\ UNCHANGED <<feed, content, tmp, now, used, s_calls, g_first>>

\* Lines 870-878: a new question. answer() rejects, or it returns, the answer
\* is printed (877) and storeQA runs (878); what storeQA throws ends the run
\* at line 884.
Ask(p) ==
    /\ pc[p] = "session"
    /\ qa_seq < MaxQA
    /\ \/ /\ Reject(p, "Gemini API Error")
          /\ UNCHANGED <<qa, qa_seq>>
       \/ \E enforced \in ForeignKeys :
            IF enforced /\ RowsOf(content, loc[p].data.content_id) = <<>>
              THEN /\ pc' = [pc EXCEPT ![p] = "done"]
                   /\ ret' = [ret EXCEPT ![p] = [Threw(FKError) EXCEPT !.answer = "A"]]
                   /\ loc' = [loc EXCEPT ![p] = NoLoc]
                   /\ UNCHANGED <<qa, qa_seq>>
              ELSE /\ qa' = StoreQA(qa, qa_seq, loc[p].data.content_id, "Q", "A", now)
                   /\ qa_seq' = qa_seq + 1
                   /\ ret' = [ret EXCEPT ![p].answer = "A"]
                   /\ UNCHANGED <<pc, loc>>
    /\ UNCHANGED <<feed, content, tmp, now, used, s_calls, g_first>>

\* ORDER BY created_at ASC (line 603): the orders in which the rows may come,
\* every one that has the timestamps ascending; rows of one second come in
\* whatever order the engine takes them.
OrderedByCreatedAt(rows) ==
    { [i \in DOMAIN rows |-> rows[f[i]]] : f \in
        { g \in Permutations(DOMAIN rows) :
            \A i, j \in DOMAIN rows :
                i < j => rows[g[i]].created_at <= rows[g[j]].created_at } }

\* Lines 853-868, exportQA (595-649): the Q&A of the session written to a
\* file; "No Q&A to export" is caught at 864 and the loop goes on.
Export(p) ==
    /\ pc[p] = "session"
    /\ LET rows == RowsOf(qa, loc[p].data.content_id)
       IN  IF rows = <<>>
             THEN ret' = [ret EXCEPT ![p].error = "No Q&A to export", ![p].list = <<>>]
             ELSE \E qaRows \in OrderedByCreatedAt(rows) :
                     ret' = [ret EXCEPT ![p].error = "",
                                        ![p].list = [i \in DOMAIN qaRows |-> qaRows[i].id]]
    /\ UNCHANGED <<feed, dbVars, pc, loc, used, s_calls, g_first>>

\* Lines 693-704: the content id the --delete path derives.
DeleteContentId(url) ==
    IF getVideoId(url) # <<>> THEN getVideoId(url)
    ELSE IF url.pod # "" THEN <<"podcast_", url.pod, "_episode_", url.ep>>
    ELSE <<>>

\* Lines 692-718.
DeleteBegin(p, url) ==
    /\ pc[p] = "idle"
    /\ LET contentId == DeleteContentId(url)
       IN  IF contentId = <<>>
             THEN /\ Reject(p, "Could not parse URL.")
             ELSE IF RowsOf(content, contentId) = <<>>
                    THEN /\ pc' = [pc EXCEPT ![p] = "done"]
                         /\ ret' = [ret EXCEPT ![p] = Returned("notfound", NoData)]
                         /\ loc' = [loc EXCEPT ![p] = NoLoc]
                    ELSE /\ pc' = [pc EXCEPT ![p] = "delete_qa"]
                         /\ ret' = [ret EXCEPT ![p] = NoRet]
                         /\ loc' = [loc EXCEPT ![p] =
                               Locals(url, [NoData EXCEPT !.content_id = contentId])]
    /\ UNCHANGED <<feed, dbVars, used, s_calls, g_first>>

DeleteQASkipped(p) ==
    /\ pc[p] = "delete_qa"
    /\ ret' = [ret EXCEPT ![p].qa = 0]
    /\ pc' = [pc EXCEPT ![p] = "delete_content"]
    /\ UNCHANGED <<feed, content, qa, qa_seq, tmp, now, loc, used, s_calls, g_first>>

\* Line 721.
DeleteQA(p) ==
    /\ pc[p] = "delete_qa"
    /\ LET id == loc[p].data.content_id
           kept == SelectSeq(qa, LAMBDA r : r.content_id # id)
       IN  /\ qa' = kept
           /\ ret' = [ret EXCEPT ![p].qa = Len(qa) - Len(kept)]
    /\ pc' = [pc EXCEPT ![p] = "delete_content"]
    /\ UNCHANGED <<feed, content, qa_seq, tmp, now, loc, used, s_calls, g_first>>

DeleteRowAll(p) ==
    /\ pc[p] = "delete_content"
    /\ content' = <<>>
    /\ ret' = [ret EXCEPT ![p].status = "deleted", ![p].rows = 1]
    /\ g_first' = [id \in ContentIds |-> NoData]
    /\ pc' = [pc EXCEPT ![p] = "done"]
    /\ loc' = [loc EXCEPT ![p] = NoLoc]
    /\ UNCHANGED <<feed, qa, qa_seq, tmp, now, used, s_calls>>

\* Lines 722-727. With foreign keys enforced the DELETE is refused while a
\* row of qa refers to the content row.
DeleteRow(p) ==
    /\ pc[p] = "delete_content"
    /\ LET id == loc[p].data.content_id
           kept == SelectSeq(content, LAMBDA r : r.content_id # id)
       IN  \E enforced \in ForeignKeys :
              IF enforced /\ RowsOf(qa, id) # <<>>
                THEN /\ Reject(p, FKError)
                     /\ UNCHANGED <<content, g_first>>
                ELSE /\ content' = kept
                     /\ ret' = [ret EXCEPT ![p].status = "deleted",
                                           ![p].rows = Len(content) - Len(kept)]
                     /\ g_first' = [g_first EXCEPT ![id] = NoData]
                     /\ pc' = [pc EXCEPT ![p] = "done"]
                     /\ loc' = [loc EXCEPT ![p] = NoLoc]
    /\ UNCHANGED <<feed, qa, qa_seq, tmp, now, used, s_calls>>

\* A second passes. Only the order of the timestamps shows, so the clock moves
\* on only from a second that some row carries.
Tick ==
    /\ now < MaxClock
    /\ \/ \E i \in DOMAIN content : content[i].created_at = now
       \/ \E i \in DOMAIN qa : qa[i].created_at = now
    /\ now' = now + 1
    /\ UNCHANGED <<feed, content, qa, qa_seq, tmp, procVars>>

(***************************************************************************)
(* --find: restoreSession (564-582) with cosineSimilarity (549-554)        *)
(***************************************************************************)
\* A JavaScript number: m * 2^e with m = 0 or 2^(FloatBits-1) <= |m| <
\* 2^FloatBits, every operation rounding to the nearest such number, ties to
\* even. IEEE-754 binary64 keeps 53 significant bits; the model keeps FloatBits.
FloatBits == 7

Float(m, e) == [m |-> m, e |-> e]

Zero == Float(0, 0)

\* -Infinity (line 574): below every number.
MinusInfinity == Float(0, 1)

RECURSIVE BitLength(_)
BitLength(n) == IF n = 0 THEN 0 ELSE 1 + BitLength(n \div 2)

\* The number nearest to M * 2^E, for an integer M >= 0.
Round(M, E) ==
    IF M = 0
      THEN Zero
      ELSE LET k == BitLength(M) - FloatBits
           IN  IF k <= 0
                 THEN Float(M * Pow2(-k), E + k)
                 ELSE LET q == M \div Pow2(k)
                          r == M % Pow2(k)
                          half == Pow2(k - 1)
                          m == IF r > half \/ (r = half /\ q % 2 = 1) THEN q + 1 ELSE q
                      IN  IF m = Pow2(FloatBits)
                            THEN Float(Pow2(FloatBits - 1), E + k + 1)
                            ELSE Float(m, E + k)

\* The number an integer converts to.
FromInt(n) ==
    IF n < 0 THEN Float(-Round(-n, 0).m, Round(-n, 0).e) ELSE Round(n, 0)

\* x * y for numbers above 0.
Mul(x, y) == Round(x.m * y.m, x.e + y.e)

\* x / y for y above 0.
Div(x, y) ==
    LET n == (IF x.m < 0 THEN -x.m ELSE x.m) * Pow2(FloatBits + 1)
        q == n \div y.m
        sticky == IF n % y.m # 0 THEN 1 ELSE 0
        res == Round(2 * q + sticky, x.e - y.e - FloatBits - 2)
    IN  IF x.m < 0 THEN Float(-res.m, res.e) ELSE res

\* The least j with S * 4^j >= 4^(FloatBits-1).
RECURSIVE SqrtScale(_, _)
SqrtScale(S, j) ==
    IF S * Pow2(2 * j) >= Pow2(2 * (FloatBits - 1)) THEN j ELSE SqrtScale(S, j + 1)

\* Math.sqrt of an integer S >= 0, as Math.hypot gives it for the vector
\* whose squares add up to S.
Sqrt(S) ==
    IF S = 0
      THEN Zero
      ELSE LET j == SqrtScale(S, 0)
               X == S * Pow2(2 * j)
               m == CHOOSE n \in 0..Pow2(FloatBits) : n * n <= X /\ X < (n + 1) * (n + 1)
           IN  Round(IF X > m * m + m THEN m + 1 ELSE m, -j)

\* Line 550: a.reduce((s, v, i) => s + v * b[i], 0), on vectors of integers.
RECURSIVE Dot(_, _)
Dot(a, b) ==
    IF a = <<>> THEN 0 ELSE Head(a) * Head(b) + Dot(Tail(a), Tail(b))

\* Lines 549-554.
cosineSimilarity(a, b) ==
    LET dot == FromInt(Dot(a, b))
        magA == Sqrt(Dot(a, a))
        magB == Sqrt(Dot(b, b))
    IN  IF magA # Zero /\ magB # Zero THEN Div(dot, Mul(magA, magB)) ELSE Zero

\* x > y.
Greater(x, y) ==
    IF x = MinusInfinity THEN FALSE
    ELSE IF y = MinusInfinity THEN TRUE
    ELSE IF x.m > 0 /\ y.m > 0 THEN x.e > y.e \/ (x.e = y.e /\ x.m > y.m)
    ELSE IF x.m < 0 /\ y.m < 0 THEN x.e < y.e \/ (x.e = y.e /\ x.m > y.m)
    ELSE x.m > y.m

\* The literal 0.8 of line 580.
Threshold == Div(FromInt(4), FromInt(5))

BetterOrEqual(sim, best) == ~Greater(best.score, sim)

\* Line 577: sim > best.score.
Better(sim, best) == Greater(sim, best.score)

NoCloseMatchBelowSixTenths(best) == Greater(Div(FromInt(3), FromInt(5)), best.score)

\* Line 580: best.score < 0.8.
NoCloseMatch(best) == Greater(Threshold, best.score)

\* Line 574.
NoBest == [idx |-> -1, score |-> MinusInfinity]

\* Lines 575-578: the forEach over sims from its element i on; sims[i] here
\* is the element of index i - 1 there.
RECURSIVE BestFrom(_, _, _, _)
BestFrom(navEmb, sims, i, best) ==
    IF i > Len(sims)
      THEN best
      ELSE LET sim == cosineSimilarity(navEmb, sims[i])
           IN  BestFrom(navEmb, sims, i + 1,
                        IF Better(sim, best) THEN [idx |-> i - 1, score |-> sim] ELSE best)

\* What the embedding model gives for the summaries and for the narrative.
Embeddings ==
    {<<4, 3>>, <<8, 6>>, <<3, 4>>, <<1, 0>>, <<0, 1>>, <<0, 0>>, <<-4, -3>>}

NarrativeEmbeddings == {<<4, 3>>, <<0, 0>>}

\* Rows --find may meet in content.
MaxFound == 3

FindIds ==
    { getVideoId(VideoUrl),
      PodcastContentId(PodcastInfo(PodcastUrl, Item5)),
      PodcastContentId(PodcastInfo(MissingEpisodeUrl, Item5)) }

\* The row earlier runs stored for a content id (lines 243-247, 352-364).
FindRow(id) ==
    Data(id, IF id = getVideoId(VideoUrl) THEN "youtube" ELSE "apple_podcast",
         "T", "", "", zip(Text(<<"w">>, 900)), "S1", 0)

\* The tables of up to MaxFound rows; content_id is the primary key.
FindTables ==
    { [i \in DOMAIN ids |-> FindRow(ids[i])] :
        ids \in { t \in UNION {[1..n -> FindIds] : n \in 0..MaxFound} :
                    \A i, j \in DOMAIN t : i # j => t[i] # t[j] } }

FindIdle ==
    /\ f_pc = "idle"
    /\ f_rows = <<>>
    /\ f_navEmb = <<>>
    /\ f_replies = <<>>
    /\ f_order = <<>>
    /\ f_sims = <<>>
    /\ f_best = NoBest
    /\ f_requests = 0
    /\ f_ret = NoRet

FindInit ==
    /\ f_pc = "entry"
    /\ f_rows = <<>>
    /\ f_navEmb = <<>>
    /\ f_replies = <<>>
    /\ f_order = <<>>
    /\ f_sims = <<>>
    /\ f_best = NoBest
    /\ f_requests = 0
    /\ f_ret = NoRet

FindBeginEmbedsFirst ==
    /\ f_pc = "entry"
    /\ f_rows' = content
    /\ f_requests' = f_requests + 1
    /\ IF content = <<>>
         THEN /\ f_pc' = "done"
              /\ f_ret' = Threw("No sessions saved")
         ELSE /\ f_pc' = "embed"
              /\ UNCHANGED f_ret
    /\ UNCHANGED <<f_navEmb, f_replies, f_order, f_sims, f_best>>

\* Lines 568-569.
FindBegin ==
    /\ f_pc = "entry"
    /\ f_rows' = content
    /\ IF content = <<>>
         THEN /\ f_pc' = "done"
              /\ f_ret' = Threw("No sessions saved")
         ELSE /\ f_pc' = "embed"
              /\ UNCHANGED f_ret
    /\ UNCHANGED <<f_navEmb, f_replies, f_order, f_sims, f_best, f_requests>>

\* What embed() gives getEmbedding (lines 557-561): the embedding, or the
\* rejection that getEmbedding lets through as it is.
RateLimited == "Too Many Requests"

Reply(ok, embedding, error) == [ok |-> ok, embedding |-> embedding, error |-> error]

EmbedReplies(embeddings) ==
    {Reply(TRUE, e, "") : e \in embeddings} \cup {Reply(FALSE, <<>>, RateLimited)}

\* Line 571: await getEmbedding(narrative).
FindNarrative ==
    /\ f_pc = "embed"
    /\ f_requests' = f_requests + 1
    /\ \E reply \in EmbedReplies(NarrativeEmbeddings) :
          IF reply.ok
            THEN /\ f_navEmb' = reply.embedding
                 /\ f_pc' = "rows"
                 /\ UNCHANGED f_ret
            ELSE /\ f_pc' = "done"
                 /\ f_ret' = Threw(reply.error)
                 /\ UNCHANGED f_navEmb
    /\ UNCHANGED <<f_rows, f_replies, f_order, f_sims, f_best>>

\* Line 572: rows.map((r) => getEmbedding(r.summary)) issues one request per
\* row, all before any of them completes.
FindRequest ==
    /\ f_pc = "rows"
    /\ f_replies' \in [1..Len(f_rows) -> EmbedReplies(Embeddings)]
    /\ f_sims' = [i \in 1..Len(f_rows) |-> <<>>]
    /\ f_requests' = f_requests + Len(f_rows)
    /\ f_pc' = "await"
    /\ UNCHANGED <<f_rows, f_navEmb, f_order, f_best, f_ret>>

SettlePushed(sims, order, i, embedding) ==
    [sims EXCEPT ![Len(order) + 1] = embedding]

\* Promise.all (line 572) puts what request i resolved with at index i of
\* its result, whichever requests completed before.
Settle(sims, order, i, embedding) == [sims EXCEPT ![i] = embedding]

\* One of the pending requests of line 572 completes; Promise.all rejects
\* with the first rejection and resolves when every request has resolved.
FindSettle ==
    /\ f_pc = "await"
    /\ \E i \in DOMAIN f_replies :
          /\ \A k \in DOMAIN f_order : f_order[k] # i
          /\ f_order' = Append(f_order, i)
          /\ IF f_replies[i].ok
               THEN /\ f_sims' = Settle(f_sims, f_order, i, f_replies[i].embedding)
                    /\ f_pc' = IF Len(f_order') = Len(f_replies) THEN "pick" ELSE "await"
                    /\ UNCHANGED f_ret
               ELSE /\ f_pc' = "done"
                    /\ f_ret' = Threw(f_replies[i].error)
                    /\ UNCHANGED f_sims
    /\ UNCHANGED <<f_rows, f_navEmb, f_replies, f_best, f_requests>>

\* Lines 574-581, and lines 742-743 of main on what restoreSession returned.
FindPick ==
    /\ f_pc = "pick"
    /\ LET best == BestFrom(f_navEmb, f_sims, 1, NoBest)
       IN  /\ f_best' = best
           /\ f_ret' = IF NoCloseMatch(best)
                         THEN Threw("No close match found")
                         ELSE Returned("found",
                                 [f_rows[best.idx + 1] EXCEPT !.transcript = unzip(@)])
    /\ f_pc' = "done"
    /\ UNCHANGED <<f_rows, f_navEmb, f_replies, f_order, f_sims, f_requests>>

(***************************************************************************)
(* zip and unzip (10-19) on one text                                       *)
(***************************************************************************)
\* Code units of a text: letters, U+FEFF and an unpaired high surrogate.
TextUnits == {"a", "b", "BOM", "HS"}

MaxUnits == 3

ZipTexts ==
    {Text(units, 1) : units \in UNION {[1..n -> TextUnits] : n \in 0..MaxUnits}}

ZipIdle ==
    /\ z_pc = "idle"
    /\ z_text = Null
    /\ z_blob = Null
    /\ z_out = Null

ZipInit ==
    /\ z_pc = "entry"
    /\ z_text \in ZipTexts
    /\ z_blob = Null
    /\ z_out = Null

\* Lines 242 and 361: zip(transcript).
ZipCall ==
    /\ z_pc = "entry"
    /\ z_blob' = zip(z_text)
    /\ z_pc' = "zipped"
    /\ UNCHANGED <<z_text, z_out>>

\* Line 224: unzip(existing.transcript).
UnzipCall ==
    /\ z_pc = "zipped"
    /\ z_out' = unzip(z_blob)
    /\ z_pc' = "done"
    /\ UNCHANGED <<z_text, z_blob>>

(***************************************************************************)
(* cosineSimilarity (549-554) on two vectors                               *)
(***************************************************************************)
\* The vectors: up to MaxDim coordinates, integers of -MaxCoord..MaxCoord.
MaxDim == 2

MaxCoord == 3

Vectors(n) == [1..n -> -MaxCoord..MaxCoord]

CosIdle ==
    /\ k_pc = "idle"
    /\ k_a = <<>>
    /\ k_b = <<>>
    /\ k_out = Zero

CosInit ==
    /\ k_pc = "entry"
    /\ \E n \in 1..MaxDim :
          /\ k_a \in Vectors(n)
          /\ k_b \in Vectors(n)
    /\ k_out = Zero

\* Line 576: cosineSimilarity(navEmb, emb).
CosCall ==
    /\ k_pc = "entry"
    /\ k_out' = cosineSimilarity(k_a, k_b)
    /\ k_pc' = "done"
    /\ UNCHANGED <<k_a, k_b>>

Init == ChunkIdle /\ RetryIdle /\ PipeInit /\ UrlIdle /\ FindIdle /\ ZipIdle /\ CosIdle

\* Spec: one process runs the program again and again, on any locator.
Next ==
    \/ \E url \in Locators : Begin("p1", url) /\ UNCHANGED <<chunkVars, retryVars, urlVars, findVars, zipVars, cosVars>>
    \/ \E run \in YtDlpRuns : Captions("p1", run) /\ UNCHANGED <<chunkVars, retryVars, urlVars, findVars, zipVars, cosVars>>
    \/ Transcribe("p1") /\ UNCHANGED <<chunkVars, retryVars, urlVars, findVars, zipVars, cosVars>>
    \/ Cleanup("p1") /\ UNCHANGED <<chunkVars, retryVars, urlVars, findVars, zipVars, cosVars>>
    \/ Title("p1") /\ UNCHANGED <<chunkVars, retryVars, urlVars, findVars, zipVars, cosVars>>
    \/ Summarize("p1") /\ UNCHANGED <<chunkVars, retryVars, urlVars, findVars, zipVars, cosVars>>
    \/ Insert("p1") /\ UNCHANGED <<chunkVars, retryVars, urlVars, findVars, zipVars, cosVars>>
    \/ Resolve("p1") /\ UNCHANGED <<chunkVars, retryVars, urlVars, findVars, zipVars, cosVars>>
    \/ Rss("p1") /\ UNCHANGED <<chunkVars, retryVars, urlVars, findVars, zipVars, cosVars>>
    \/ Finish("p1") /\ UNCHANGED <<chunkVars, retryVars, urlVars, findVars, zipVars, cosVars>>
    \/ OpenSession("p1") /\ UNCHANGED <<chunkVars, retryVars, urlVars, findVars, zipVars, cosVars>>
    \/ PickSession("p1") /\ UNCHANGED <<chunkVars, retryVars, urlVars, findVars, zipVars, cosVars>>
    \/ Ask("p1") /\ UNCHANGED <<chunkVars, retryVars, urlVars, findVars, zipVars, cosVars>>
    \/ Export("p1") /\ UNCHANGED <<chunkVars, retryVars, urlVars, findVars, zipVars, cosVars>>
    \/ \E url \in Locators : DeleteBegin("p1", url) /\ UNCHANGED <<chunkVars, retryVars, urlVars, findVars, zipVars, cosVars>>
    \/ DeleteQA("p1") /\ UNCHANGED <<chunkVars, retryVars, urlVars, findVars, zipVars, cosVars>>
    \/ DeleteRow("p1") /\ UNCHANGED <<chunkVars, retryVars, urlVars, findVars, zipVars, cosVars>>
    \/ Tick /\ UNCHANGED <<chunkVars, retryVars, urlVars, findVars, zipVars, cosVars>>

Spec == Init /\ [][Next]_vars

\* The yt-dlp runs of RaceSpec: those that wrote the subtitle file.
RaceRuns == {run \in YtDlpRuns : run.vtt.exists}

\* RaceSpec: two runs of the program at once on the same video locator.
RaceNext ==
    \/ \E p \in Procs : Begin(p, VideoUrl) /\ UNCHANGED <<chunkVars, retryVars, urlVars, findVars, zipVars, cosVars>>
    \/ \E p \in Procs, run \in RaceRuns : Captions(p, run) /\ UNCHANGED <<chunkVars, retryVars, urlVars, findVars, zipVars, cosVars>>
    \/ \E p \in Procs : Transcribe(p) /\ UNCHANGED <<chunkVars, retryVars, urlVars, findVars, zipVars, cosVars>>
    \/ \E p \in Procs : Cleanup(p) /\ UNCHANGED <<chunkVars, retryVars, urlVars, findVars, zipVars, cosVars>>
    \/ \E p \in Procs : Title(p) /\ UNCHANGED <<chunkVars, retryVars, urlVars, findVars, zipVars, cosVars>>
    \/ \E p \in Procs : Summarize(p) /\ UNCHANGED <<chunkVars, retryVars, urlVars, findVars, zipVars, cosVars>>
    \/ \E p \in Procs : Insert(p) /\ UNCHANGED <<chunkVars, retryVars, urlVars, findVars, zipVars, cosVars>>
    \/ \E p \in Procs : Finish(p) /\ UNCHANGED <<chunkVars, retryVars, urlVars, findVars, zipVars, cosVars>>
    \/ \E p \in Procs : OpenSession(p) /\ UNCHANGED <<chunkVars, retryVars, urlVars, findVars, zipVars, cosVars>>
    \/ \E p \in Procs : Ask(p) /\ UNCHANGED <<chunkVars, retryVars, urlVars, findVars, zipVars, cosVars>>
    \/ \E p \in Procs : DeleteBegin(p, VideoUrl) /\ UNCHANGED <<chunkVars, retryVars, urlVars, findVars, zipVars, cosVars>>
    \/ \E p \in Procs : DeleteQA(p) /\ UNCHANGED <<chunkVars, retryVars, urlVars, findVars, zipVars, cosVars>>
    \/ \E p \in Procs : DeleteRow(p) /\ UNCHANGED <<chunkVars, retryVars, urlVars, findVars, zipVars, cosVars>>
    \/ Tick /\ UNCHANGED <<chunkVars, retryVars, urlVars, findVars, zipVars, cosVars>>

RaceSpec == Init /\ [][RaceNext]_vars

\* Rows content holds when the last call of PodSpec starts.
MaxRows == 1

\* PodSpec: two runs of the program on podcast locators while the feed moves.
PodNext ==
    \/ \E p \in Procs, url \in PodLocators :
          Len(content) < MaxRows /\ Begin(p, url) /\ UNCHANGED <<chunkVars, retryVars, urlVars, findVars, zipVars, cosVars>>
    \/ \E p \in Procs : Resolve(p) /\ UNCHANGED <<chunkVars, retryVars, urlVars, findVars, zipVars, cosVars>>
    \/ \E p \in Procs : Rss(p) /\ UNCHANGED <<chunkVars, retryVars, urlVars, findVars, zipVars, cosVars>>
    \/ \E p \in Procs : Transcribe(p) /\ UNCHANGED <<chunkVars, retryVars, urlVars, findVars, zipVars, cosVars>>
    \/ \E p \in Procs : Summarize(p) /\ UNCHANGED <<chunkVars, retryVars, urlVars, findVars, zipVars, cosVars>>
    \/ \E p \in Procs : Insert(p) /\ UNCHANGED <<chunkVars, retryVars, urlVars, findVars, zipVars, cosVars>>
    \/ \E p \in Procs : Finish(p) /\ UNCHANGED <<chunkVars, retryVars, urlVars, findVars, zipVars, cosVars>>
    \/ Publish /\ UNCHANGED <<chunkVars, retryVars, urlVars, findVars, zipVars, cosVars>>
    \/ Retire /\ UNCHANGED <<chunkVars, retryVars, urlVars, findVars, zipVars, cosVars>>

PodSpec == Init /\ [][PodNext]_vars

(***************************************************************************)
(* Claims about the cache                                                  *)
(***************************************************************************)
\* The acquisition chain, the title fetch and the summarizer.
Acquisition == {"captions", "feed", "engine"}

Collaborators == Acquisition \cup {"title", "llm"}

\* C4: a call that finds the row of its locator is a pure cache read: it runs
\* neither the acquisition chain nor the summarizer, and the transcript and the
\* summary it returns are the ones the storing call returned.
IdempotentAcquisition ==
    \A p \in Procs :
        (pc[p] = "done" /\ ret[p].status = "hit") =>
            LET first == g_first[ret[p].data.content_id]
            IN  /\ used[p] \cap (Acquisition \cup {"llm"}) = {}
                /\ ret[p].data.transcript = first.transcript
                /\ ret[p].data.summary = first.summary

\* C5: on a cache hit the caller is handed the decompressed transcript, the
\* text that was compressed when the row was inserted, video and podcast alike.
CacheHitDecompressed ==
    \A p \in Procs :
        (pc[p] = "done" /\ ret[p].status = "hit") =>
            /\ ret[p].data.transcript.type = "text"
            /\ zip(ret[p].data.transcript) =
                  RowsOf(content, ret[p].data.content_id)[1].transcript

\* The program positions inside getOrCreateTranscript.
AcquirePcs ==
    {"captions", "transcribe", "cleanup", "title", "summarize", "insert", "resolve", "rss"}

\* C6: the only step of getOrCreateTranscript that changes a table is the
\* insert of a call that has acquired a transcript and been given a summary,
\* and that call returns; every other step, the failing ones included, leaves
\* content and qa as they were.
NoPartialRecord ==
    [][\A p \in Procs :
          (pc[p] \in AcquirePcs /\ pc'[p] # pc[p]) =>
              \/ UNCHANGED <<content, qa>>
              \/ /\ pc[p] = "insert"
                 /\ ret'[p].status = "stored"
                 /\ qa' = qa
                 /\ Len(content') = Len(content) + 1
                 /\ SubSeq(content', 1, Len(content)) = content
                 /\ LET row == Last(content')
                    IN  /\ row.content_id = loc[p].data.content_id
                        /\ loc[p].data.transcript.type = "text"
                        /\ row.transcript = zip(loc[p].data.transcript)
                        /\ row.summary \in Summaries
                        /\ used[p] \cap Acquisition # {}
                        /\ "llm" \in used[p]]_vars

\* A call has failed in the summarizer while the cache held a row.
FailedCallBesideRow ==
    /\ pc["p1"] = "done"
    /\ ret["p1"].status = "error"
    /\ ret["p1"].error = "Gemini API Error"
    /\ used["p1"] \cap Acquisition # {}
    /\ content # <<>>

\* C7: content never holds two rows with one content_id, and an insert for a
\* content_id that has a row fails with the duplicate-key error and leaves the
\* table, that row's transcript, summary, title and created_at with it, as it was.
OneRowPerContentId ==
    /\ [](\A i, j \in DOMAIN content :
            content[i].content_id = content[j].content_id => i = j)
    /\ [][\A p \in Procs :
            (/\ pc[p] = "insert"
             /\ pc'[p] # "insert"
             /\ RowsOf(content, loc[p].data.content_id) # <<>>) =>
                /\ ret'[p].status = "error"
                /\ ret'[p].error = "UNIQUE constraint failed: content.content_id"
                /\ content' = content]_vars

\* An insert has been refused while the row of the other run is in the table.
DuplicateInsertRefused ==
    \E p \in Procs :
        /\ pc[p] = "done"
        /\ ret[p].error = "UNIQUE constraint failed: content.content_id"
        /\ Len(content) = 1

\* The content id of the call p is making, before and after a step of it.
CallId(p) ==
    IF pc[p] = "idle" THEN loc'[p].data.content_id ELSE loc[p].data.content_id

\* C8: when a row for the resolved content_id exists the call invokes neither
\* caption extraction, the transcription engine, the title fetch nor an LLM
\* call (a step that invokes one happens only while no such row exists), and
\* the step that returns the cached row leaves both tables as they were.
CacheHitSkipsAcquisition ==
    [][\A p \in Procs :
          /\ (used'[p] \cap Collaborators) \ (used[p] \cap Collaborators) # {} =>
                RowsOf(content, CallId(p)) = <<>>
          /\ (ret'[p].status = "hit" /\ ret[p].status # "hit") =>
                /\ RowsOf(content, ret'[p].data.content_id) # <<>>
                /\ used'[p] \cap Collaborators = {}
                /\ UNCHANGED <<content, qa>>]_vars

\* Both kinds of row have been served from the cache.
CacheHitServed ==
    /\ pc["p1"] = "done"
    /\ ret["p1"].status = "hit"
    /\ ret["p1"].data.content_type = "youtube"
    /\ Len(content) = 2

(***************************************************************************)
(* Claims about the acquisition chain                                      *)
(***************************************************************************)
\* yt-dlp failed and its stderr holds one of the two classified signals.
Classified(run) ==
    /\ run.exit # 0
    /\ \/ Includes(run.stderr, "live event will begin")
       \/ Includes(run.stderr, "This video is unavailable")

\* Caption extraction ended without text and without a classified signal: an
\* unclassified error, no subtitle file, or a file with no text in it.
SoftFailure(run) ==
    /\ run # NoRun
    /\ ~Classified(run)
    /\ \/ run.exit # 0
       \/ ~run.vtt.exists
       \/ VttToText(run.vtt).units = <<>>

\* The positions of the video path behind caption extraction.
AfterCaptions == {"transcribe", "cleanup", "title", "summarize", "insert"}

\* C11: caption extraction throws exactly on a classified signal; a call that
\* saw one is not carried on, it ends with the error of that signal and has
\* not invoked the transcription engine.
ClassifiedCaptionErrorIsTerminal ==
    /\ \A run \in YtDlpRuns :
          Classified(run) <=>
              fetchCaptionsWithYtDlp(run).threw \in {LiveStreamError, UnavailableError}
    /\ \A p \in Procs :
          /\ pc[p] \in AfterCaptions => ~Classified(loc[p].run)
          /\ ret[p].error \in {LiveStreamError, UnavailableError} =>
                /\ pc[p] = "done"
                /\ ret[p].status = "error"
                /\ used[p] \cap Acquisition = {"captions"}

\* A call has ended with the error of an upcoming live stream.
LiveStreamRefused ==
    /\ pc["p1"] = "done"
    /\ ret["p1"].error = LiveStreamError
    /\ "captions" \in used["p1"]

\* C12: a video call that has started caption extraction does not end, on
\* any path, without cleanupTmpFiles having run for its video id.
CleanupOnEveryExit ==
    \A p \in Procs :
        (pc[p] = "done" /\ "captions" \in used[p]) => "cleanup" \in used[p]

\* C13: no acquisition ends with the error of the title fetch.
TitleFailureTolerated ==
    \A p \in Procs : ~(pc[p] = "done" /\ ret[p].error = TitleError)

\* C14: the transcript a call summarizes and inserts is not empty, and no row
\* holds an empty transcript.
NonEmptyTranscript ==
    /\ \A p \in Procs :
          pc[p] \in {"summarize", "insert"} => loc[p].data.transcript.units # <<>>
    /\ \A i \in DOMAIN content : unzip(content[i].transcript).units # <<>>

\* C15: on the video path the call stands before the transcription engine
\* only after a soft failure of caption extraction, with nothing raised to
\* the caller; behind that point the engine has been invoked exactly when the
\* failure was soft, and otherwise the transcript is the caption text.
EngineOnlyAfterSoftFailure ==
    \A p \in Procs :
        (loc[p].data.content_type = "youtube" /\ pc[p] \in AfterCaptions) =>
            LET soft == SoftFailure(loc[p].run)
            IN  /\ loc[p].run \in YtDlpRuns
                /\ pc[p] = "transcribe" => soft /\ ret[p].status = "none"
                /\ pc[p] # "transcribe" => ("engine" \in used[p] <=> soft)
                /\ ~soft => loc[p].data.transcript = VttToText(loc[p].run.vtt)

\* The engine has transcribed a video whose subtitle file held no text.
EngineAfterEmptyCaptions ==
    /\ pc["p1"] = "cleanup"
    /\ "engine" \in used["p1"]
    /\ loc["p1"].run.exit = 0
    /\ loc["p1"].run.vtt.exists

\* The call of p is on the podcast path with an episode resolved.
PodcastCall(p) == loc[p].data.content_type = "apple_podcast"

InFeed(it) == \E i \in DOMAIN feed : feed[i] = it

\* C16: when the episode a podcast call resolved is in the feed the call reads
\* again and carries a transcript pointer that answers, the call goes on to
\* summarize the text of that pointer and never stands before the engine.
FeedTranscriptSkipsEngine ==
    [][\A p \in Procs :
          (/\ pc[p] = "rss"
           /\ pc'[p] # "rss"
           /\ "reread" \in used'[p]
           /\ InFeed(loc[p].episode)
           /\ loc[p].episode.pointer = GoodPointer) =>
              /\ pc'[p] = "summarize"
              /\ loc'[p].data.transcript \in FeedTexts
              /\ "engine" \notin used'[p]]_vars

\* C17: a podcast call whose episode has no enclosure url does not invoke
\* the transcription engine: from the point where no feed transcript was
\* found it ends with an error that is not the transcriber's.
EngineNeedsAudio ==
    [][\A p \in Procs :
          (/\ pc[p] = "transcribe"
           /\ pc'[p] # "transcribe"
           /\ PodcastCall(p)
           /\ loc[p].data.audio_url = "") =>
              /\ "engine" \notin used'[p]
              /\ ret'[p].status = "error"
              /\ ret'[p].error # "Transcriber failed"
              /\ content' = content]_vars

\* A step of podcast resolution fails for this locator on this feed: no
\* /id<digits>, no item, or an episode id that no guid holds.
ResolutionFails(url, items) ==
    \/ url.pod = ""
    \/ items = <<>>
    \/ /\ url.ep # ""
       /\ \A i \in DOMAIN items : ~GuidIncludes(items[i].guid, url.ep)

\* C18: a call whose podcast resolution fails, its requests answered, ends
\* there with the invalid-locator error and stores no row.
InvalidLocatorOnFailedResolution ==
    [][\A p \in Procs :
          (/\ pc[p] = "resolve"
           /\ pc'[p] # "resolve"
           /\ ret'[p].error # "Network Error"
           /\ ResolutionFails(loc[p].url, feed)) =>
              /\ pc'[p] = "done"
              /\ ret'[p].status = "error"
              /\ ret'[p].error = "Invalid podcast URL"
              /\ content' = content]_vars

\* C19: two calls that have resolved the same locator hold the same
\* content_id, whatever was published between the two resolutions.
StableContentId ==
    \A p, q \in Procs :
        (/\ loc[p].data.content_id # <<>>
         /\ loc[q].data.content_id # <<>>
         /\ loc[p].url = loc[q].url) =>
            loc[p].data.content_id = loc[q].data.content_id

\* The positions where an 11-character run of [A-Za-z0-9_-] starts directly
\* after "v=" or "/".
TokenStarts(url) ==
    {j \in DOMAIN url :
        /\ j + TokenLength - 1 <= Len(url)
        /\ \A k \in j..(j + TokenLength - 1) : url[k] \in IdChars
        /\ \/ j > 1 /\ url[j - 1] = "/"
           \/ j > 2 /\ url[j - 2] = "v" /\ url[j - 1] = "="}

\* C20: a locator that holds such a token takes the video path with the
\* first of them, left to right, as its content_id; the locator of the
\* example gives abc12345678.
FirstTokenIsVideoId ==
    /\ MatchVideoId(ExampleUrl) = <<"a", "b", "c", "1", "2", "3", "4", "5", "6", "7", "8">>
    /\ (u_pc = "done" /\ TokenStarts(u_url) # {}) =>
          LET first == CHOOSE j \in TokenStarts(u_url) : \A k \in TokenStarts(u_url) : j <= k
          IN  /\ u_id = SubSeq(u_url, first, first + TokenLength - 1)
              /\ u_type = "youtube"

\* The locator of the example has been resolved.
ExampleResolved ==
    /\ u_pc = "done"
    /\ u_url = ExampleUrl
    /\ u_type = "youtube"

\* ---------------------------------------------------------------------
\* Deletion and the Q&A log.
\* ---------------------------------------------------------------------

\* The rows of a table that belong to other content ids than id.
OtherRows(table, id) == SelectSeq(table, LAMBDA r : r.content_id # id)

\* C21: deleting a content_id that has a content row and k QA rows reports
\* k QA rows and 1 content row removed, and afterwards the id has no content
\* row and no QA row.
DeleteReportsCounts ==
    [][\A p \in Procs :
        /\ (pc[p] = "delete_qa" /\ pc'[p] = "delete_content") =>
              /\ RowsOf(content, loc[p].data.content_id) # <<>>
              /\ ret'[p].qa = Len(RowsOf(qa, loc[p].data.content_id))
              /\ RowsOf(qa', loc[p].data.content_id) = <<>>
        /\ (pc[p] = "delete_content" /\ pc'[p] = "done") =>
              /\ ret'[p].status = "deleted"
              /\ ret'[p].qa = ret[p].qa
              /\ ret'[p].rows = 1
              /\ RowsOf(content', loc[p].data.content_id) = <<>>
              /\ RowsOf(qa', loc[p].data.content_id) = <<>>]_vars

\* A deletion that reported MaxQA QA rows and one content row.
DeletedWithQA ==
    /\ ret["p1"].status = "deleted"
    /\ ret["p1"].qa = MaxQA
    /\ ret["p1"].rows = 1
    /\ qa = <<>>

\* C22: a deletion changes no content row and no QA row of another
\* content_id, and a deletion of an id without content row reports not-found
\* and changes neither table.
DeleteFrame ==
    [][\A p \in Procs :
        /\ pc[p] \in {"delete_qa", "delete_content"} =>
              /\ OtherRows(content', loc[p].data.content_id)
                    = OtherRows(content, loc[p].data.content_id)
              /\ OtherRows(qa', loc[p].data.content_id)
                    = OtherRows(qa, loc[p].data.content_id)
        /\ (pc[p] = "idle" /\ pc'[p] = "delete_qa") => UNCHANGED <<content, qa>>
        /\ (pc[p] = "idle" /\ ret'[p].status = "notfound") =>
              /\ pc'[p] = "done"
              /\ UNCHANGED <<content, qa>>]_vars

\* One record deleted while another record and its Q&A stay.
DeletedBesideOthers ==
    /\ ret["p1"].status = "deleted"
    /\ ret["p1"].rows = 1
    /\ Len(content) = 1
    /\ Len(qa) >= 1
    /\ \A i \in DOMAIN qa : qa[i].content_id = content[1].content_id

\* C23: in every reachable state the content_id of every QA row is the
\* content_id of a content row.
QAReferencesContent ==
    \A i \in DOMAIN qa : RowsOf(content, qa[i].content_id) # <<>>

\* C24: what the export lists is the Q&A of the content_id in the order it
\* was appended, ascending id, also for rows appended within one second.
ExportInInsertionOrder ==
    \A p \in Procs : \A i, j \in DOMAIN ret[p].list :
        i < j => ret[p].list[i] < ret[p].list[j]

\* C25: the answer of a question is with the caller whether the append of
\* the pair succeeds or fails, and the append that follows an answer writes
\* that pair under the content_id of the session.
AnswerDeliveredBeforeAppend ==
    [][/\ Len(qa') = Len(qa) + 1 =>
            \E p \in Procs :
                /\ pc[p] = "session"
                /\ ret'[p].answer = "A"
                /\ SubSeq(qa', 1, Len(qa)) = qa
                /\ Last(qa').content_id = loc[p].data.content_id
                /\ Last(qa').question = "Q"
                /\ Last(qa').answer = ret'[p].answer
       /\ \A p \in Procs :
            /\ (pc[p] = "session" /\ ret'[p].error = FKError) =>
                  /\ ret'[p].answer = "A"
                  /\ qa' = qa
            /\ (pc[p] = "session" /\ ret[p].answer = "" /\ ret'[p].answer = "A") =>
                  \/ Len(qa') = Len(qa) + 1
                  \/ ret'[p].error = FKError]_vars

\* An answer delivered although its append was refused.
AnswerKeptOnAppendFailure ==
    \E p \in Procs :
        /\ pc[p] = "done"
        /\ ret[p].status = "error"
        /\ ret[p].error = FKError
        /\ ret[p].answer = "A"

\* ---------------------------------------------------------------------
\* --find and the compression of transcripts.
\* ---------------------------------------------------------------------

\* The score of row i of the table --find read.
ScoreOf(i) == cosineSimilarity(f_navEmb, f_sims[i])

\* restoreSession has compared the scores and ended.
Picked == f_pc = "done" /\ f_best # NoBest

\* The place in the table of the row --find returned.
FoundAt == CHOOSE i \in DOMAIN f_rows : f_rows[i].content_id = f_ret.data.content_id

\* C26: restoreSession returns no row of a score below 0.8: with the best
\* score below 0.8 it fails with "No close match found", with a score of 0.8
\* or more in the table it returns a row.
NeverBelowThreshold ==
    Picked =>
        /\ f_ret.status = "found" =>
              /\ \E i \in DOMAIN f_rows : f_rows[i].content_id = f_ret.data.content_id
              /\ ~Greater(Threshold, ScoreOf(FoundAt))
        /\ (\A i \in DOMAIN f_rows : Greater(Threshold, ScoreOf(i))) =>
              /\ f_ret.status = "error"
              /\ f_ret.error = "No close match found"
        /\ (\E i \in DOMAIN f_rows : ~Greater(Threshold, ScoreOf(i))) =>
              f_ret.status = "found"

\* A row returned whose score is 0.8 exactly.
FoundAtThreshold ==
    /\ Picked
    /\ f_ret.status = "found"
    /\ ~Greater(ScoreOf(FoundAt), Threshold)
    /\ ~Greater(Threshold, ScoreOf(FoundAt))

\* C27: the row restoreSession returns has the maximum score of the table,
\* and every row before it in row order has a smaller score.
MaximumFirstSeen ==
    (Picked /\ f_ret.status = "found") =>
        /\ f_ret.data = [f_rows[FoundAt] EXCEPT !.transcript = unzip(@)]
        /\ \A j \in DOMAIN f_rows : ~Greater(ScoreOf(j), ScoreOf(FoundAt))
        /\ \A j \in 1..(FoundAt - 1) : Greater(ScoreOf(FoundAt), ScoreOf(j))

\* A row returned while a later row, of another embedding, has the same score.
FoundWithTie ==
    /\ Picked
    /\ f_ret.status = "found"
    /\ \E j \in DOMAIN f_rows :
          /\ j > FoundAt
          /\ f_sims[j] # f_sims[FoundAt]
          /\ ~Greater(ScoreOf(j), ScoreOf(FoundAt))
          /\ ~Greater(ScoreOf(FoundAt), ScoreOf(j))

\* C28: on a content table of zero rows restoreSession fails with "No
\* sessions saved" and has issued no embedding request.
EmptyCacheFailsFirst ==
    (f_pc # "entry" /\ content = <<>>) =>
        /\ f_pc = "done"
        /\ f_ret.status = "error"
        /\ f_ret.error = "No sessions saved"
        /\ f_requests = 0

\* --find has failed on the empty table.
EmptyCacheFailed ==
    /\ f_pc = "done"
    /\ content = <<>>
    /\ f_ret.error = "No sessions saved"

\* C29: unzip(zip(t)) = t for every text t, those that begin with a
\* byte-order mark or hold an unpaired surrogate included.
ZipRoundTrip == z_pc = "done" => z_out = z_text

\* C30: summarize on a transcript that splits into k > 1 chunks, one of more
\* than MAX_WORDS_PER_CHUNK words, issues its k chunk-summary calls and the
\* merge call: the step that ends it has called the language model.
ChunkedSummaryCalls ==
    [][\A p \in Procs :
        ( /\ pc[p] = "summarize"
          /\ loc[p].data.transcript.words > MAX_WORDS_PER_CHUNK
          /\ pc'[p] # "summarize" ) => "llm" \in used'[p]]_vars

\* ---------------------------------------------------------------------
\* The summarizer and the provider calls.
\* ---------------------------------------------------------------------

SingleCallSummary ==
    [][\A p \in Procs :
        ( /\ pc[p] = "summarize"
          /\ loc[p].data.transcript.words <= MAX_WORDS_PER_CHUNK
          /\ pc'[p] # "summarize" ) =>
             /\ Len(s_calls'[p]) = 1
             /\ s_calls'[p][1].kind = "chunk"
             /\ s_calls'[p][1].label = <<>>
             /\ s_calls'[p][1].input = loc[p].data.transcript
             /\ s_calls'[p][1].ok =>
                   /\ pc'[p] = "insert"
                   /\ loc'[p].data.summary = s_calls'[p][1].output]_vars

\* The one call has returned the summary the operation goes on with.
SummarizedInOneCall ==
    /\ pc["p1"] = "insert"
    /\ Len(s_calls["p1"]) = 1
    /\ s_calls["p1"][1].ok
    /\ s_calls["p1"][1].label = <<>>
    /\ loc["p1"].data.summary = s_calls["p1"][1].output
    /\ loc["p1"].data.transcript.words <= MAX_WORDS_PER_CHUNK

\* The attempts the log holds, in order.
Attempts(log) == SelectSeq(log, LAMBDA e : e # "sleep")

\* C34: the sleep after the failed attempt a, rate-limited and not the last,
\* lasts initialDelay * 2^a plus a jitter of 0 to less than 1000 ms: with
\* the defaults 5000.., 10000.., 20000.., each longer than the one before.
BackoffDelays ==
    [][(r_pc = "call" /\ r_pc' = "sleep") =>
          /\ IsRateLimitError(r_lastError')
          /\ r_attempt < r_max - 1
          /\ r_delay' >= DefaultInitialDelay * Pow2(r_attempt)
          /\ r_delay' < DefaultInitialDelay * Pow2(r_attempt) + 1000
          /\ r_slept' = Append(r_slept, r_delay')
          /\ Len(r_slept') = r_attempt + 1
          /\ r_slept # <<>> => r_delay' > Last(r_slept)]_vars

\* Three sleeps, of the longest, the shortest and the longest jitter.
ThreeBackoffs ==
    /\ r_pc = "sleep"
    /\ r_slept = <<5999, 10000, 20999>>

\* C40: the helper returns on the first attempt that succeeds and attempts
\* nothing after it; the operation is invoked at least once and at most
\* maxRetries times, and the sleeps are one fewer than the attempts.
RetryAttemptsBounded ==
    /\ \A i \in DOMAIN r_log :
          r_log[i] = "ok" => (i = Len(r_log) /\ r_pc = "returned")
    /\ r_pc = "returned" => (r_log # <<>> /\ Last(r_log) = "ok")
    /\ Calls(r_log) <= r_max
    /\ r_pc \in {"returned", "raised"} =>
          /\ Calls(r_log) >= 1
          /\ Sleeps(r_log) = Calls(r_log) - 1
          /\ Len(r_slept) = Sleeps(r_log)
          /\ \A i \in 1..(Len(Attempts(r_log)) - 1) : Attempts(r_log)[i] = "rate"

\* The helper has returned on the third attempt, after two sleeps.
ReturnedOnThirdAttempt ==
    /\ r_pc = "returned"
    /\ r_log = <<"rate", "sleep", "rate", "sleep", "ok">>
    /\ r_max = DefaultMaxRetries

\* C33: a rate-limit failure of an embedding request reaches the caller of
\* restoreSession only after the request has been retried: by then at least
\* maxRetries embedding requests have been made.
EmbeddingRateLimitRetried ==
    (f_pc = "done" /\ f_ret.error = RateLimited) => f_requests >= DefaultMaxRetries

\* C35: when restoreSession compares the scores, sims holds at the index of
\* each row the embedding its own request was answered with, whatever the
\* order of completion, and the row returned is the first of the highest
\* score among these.
CompletionOrderIrrelevant ==
    (f_pc \in {"pick", "done"} /\ Len(f_order) = Len(f_replies)
        /\ \A i \in DOMAIN f_replies : f_replies[i].ok) =>
        /\ \A i \in DOMAIN f_replies : f_sims[i] = f_replies[i].embedding
        /\ f_pc = "done" =>
              f_best = BestFrom(f_navEmb, [i \in DOMAIN f_replies |-> f_replies[i].embedding],
                                1, NoBest)

\* A row returned after the request of a later row completed first, the
\* rows being answered with embeddings of different scores.
FoundOutOfOrder ==
    /\ Picked
    /\ f_ret.status = "found"
    /\ Len(f_order) = 3
    /\ f_order[1] > f_order[2]
    /\ Greater(ScoreOf(f_order[1]), ScoreOf(f_order[2]))

\* The number 1.
One == FromInt(1)

\* C36: cosineSimilarity returns 0 when one of the vectors has magnitude 0,
\* 1 for a vector of another magnitude compared with itself, and a number
\* of -1 to 1 for any two vectors of equal length.
CosineBounds ==
    k_pc = "done" =>
        /\ (Dot(k_a, k_a) = 0 \/ Dot(k_b, k_b) = 0) => k_out = Zero
        /\ (k_a = k_b /\ Dot(k_a, k_a) # 0) => k_out = One
        /\ ~Greater(k_out, One)
        /\ ~Greater(FromInt(-1), k_out)

\* ---------------------------------------------------------------------
\* Locators and the race of two runs.
\* ---------------------------------------------------------------------

\* C37: the content_id --delete derives from a locator is the content_id
\* under which getOrCreateTranscript stored the record of that locator, a
\* podcast locator without i=<digits> included.
DeleteIdIsStoredId ==
    [][\A p \in Procs :
        (pc[p] = "insert" /\ ret'[p].status = "stored") =>
            DeleteContentId(loc[p].url) = ret'[p].data.content_id]_vars

\* /\/id(\d+)/ finds a segment in the characters of url.
HasPodcastSegment(url) ==
    \E i \in DOMAIN url :
        /\ i + 3 <= Len(url)
        /\ url[i] = "/" /\ url[i + 1] = "i" /\ url[i + 2] = "d"
        /\ url[i + 3] \in {"0", "1", "2", "3", "4", "5", "6", "7", "8", "9"}

\* The characters of url hold v=.
HasVParam(url) ==
    \E i \in DOMAIN url : i + 1 <= Len(url) /\ url[i] = "v" /\ url[i + 1] = "="

\* C38: a locator with a /id<digits> segment and no v= parameter takes the
\* podcast path, also when a segment of its path has 11 or more characters
\* of [A-Za-z0-9_-].
PodcastLocatorIsPodcast ==
    (u_pc = "done" /\ HasPodcastSegment(u_url) /\ ~HasVParam(u_url)) =>
        u_type = "apple_podcast"

\* The run p has stored its row; the insert of the run p was refused.
Stored(p) == pc[p] = "done" /\ ret[p].status = "stored"

Lost(p) ==
    /\ pc[p] = "done"
    /\ ret[p].status = "error"
    /\ ret[p].error = "UNIQUE constraint failed: content.content_id"

\* C39: of two runs for one content_id that both missed the lookup, one
\* stores its row and the insert of the other fails with the duplicate-key
\* error; the row keeps the transcript and the summary of the first writer.
FirstWriterWins ==
    /\ [][\A p, q \in Procs :
            (/\ p # q
             /\ pc[p] = "insert"
             /\ pc'[p] # "insert"
             /\ pc[q] = "insert"
             /\ loc[q].data.content_id = loc[p].data.content_id) =>
                /\ Stored(p)'
                /\ content' = Append(content,
                                 [loc[p].data EXCEPT !.transcript = zip(@),
                                                     !.created_at = now])
                /\ pc'[q] = "insert"]_vars
    /\ [][\A p \in Procs :
            (/\ pc[p] = "insert"
             /\ pc'[p] # "insert"
             /\ RowsOf(content, loc[p].data.content_id) # <<>>) =>
                LET id == loc[p].data.content_id
                    row == RowsOf(content, id)[1]
                IN  /\ Lost(p)'
                    /\ content' = content
                    /\ Len(RowsOf(content, id)) = 1
                    /\ row.transcript = zip(g_first[id].transcript)
                    /\ row.summary = g_first[id].summary]_vars

\* The first run stored summary S1; the second, given S2 for the same video,
\* was refused.
SecondWriterRefused ==
    /\ Stored("p1")
    /\ Lost("p2")
    /\ content[1].summary = "S1"
    /\ s_calls["p2"] # <<>>
    /\ Last(s_calls["p2"]).output = "S2"

ChunkSpecInit == ChunkInit /\ RetryIdle /\ PipeInit /\ UrlIdle /\ FindIdle /\ ZipIdle /\ CosIdle

ChunkSpecNext ==
    \/ ChunkEntry /\ UNCHANGED <<retryVars, dbVars, feed, procVars, urlVars, findVars, zipVars, cosVars>>
    \/ ChunkIter /\ UNCHANGED <<retryVars, dbVars, feed, procVars, urlVars, findVars, zipVars, cosVars>>
    \/ ChunkOutOfMemory /\ UNCHANGED <<retryVars, dbVars, feed, procVars, urlVars, findVars, zipVars, cosVars>>

ChunkSpec == ChunkSpecInit /\ [][ChunkSpecNext]_vars

RetrySpecInit == ChunkIdle /\ RetryInit /\ PipeInit /\ UrlIdle /\ FindIdle /\ ZipIdle /\ CosIdle

RetrySpecNext ==
    \/ RetryAttempt /\ UNCHANGED <<chunkVars, dbVars, feed, procVars, urlVars, findVars, zipVars, cosVars>>
    \/ RetryWake /\ UNCHANGED <<chunkVars, dbVars, feed, procVars, urlVars, findVars, zipVars, cosVars>>

RetrySpec == RetrySpecInit /\ [][RetrySpecNext]_vars

UrlSpecInit == ChunkIdle /\ RetryIdle /\ PipeInit /\ UrlInit /\ FindIdle /\ ZipIdle /\ CosIdle

UrlSpecNext ==
    \/ UrlGetVideoId /\ UNCHANGED <<chunkVars, retryVars, dbVars, feed, procVars, findVars, zipVars, cosVars>>
    \/ UrlBranch /\ UNCHANGED <<chunkVars, retryVars, dbVars, feed, procVars, findVars, zipVars, cosVars>>

UrlSpec == UrlSpecInit /\ [][UrlSpecNext]_vars

FindSpecInit ==
    /\ ChunkIdle /\ RetryIdle /\ UrlIdle /\ ZipIdle /\ CosIdle
    /\ content \in FindTables
    /\ PipeRest
    /\ FindInit

FindSpecNext ==
    \/ FindBegin /\ UNCHANGED <<chunkVars, retryVars, dbVars, feed, procVars, urlVars, zipVars, cosVars>>
    \/ FindNarrative /\ UNCHANGED <<chunkVars, retryVars, dbVars, feed, procVars, urlVars, zipVars, cosVars>>
    \/ FindRequest /\ UNCHANGED <<chunkVars, retryVars, dbVars, feed, procVars, urlVars, zipVars, cosVars>>
    \/ FindSettle /\ UNCHANGED <<chunkVars, retryVars, dbVars, feed, procVars, urlVars, zipVars, cosVars>>
    \/ FindPick /\ UNCHANGED <<chunkVars, retryVars, dbVars, feed, procVars, urlVars, zipVars, cosVars>>

FindSpec == FindSpecInit /\ [][FindSpecNext]_vars

ZipSpecInit == ChunkIdle /\ RetryIdle /\ PipeInit /\ UrlIdle /\ FindIdle /\ ZipInit /\ CosIdle

ZipSpecNext ==
    \/ ZipCall /\ UNCHANGED <<chunkVars, retryVars, dbVars, feed, procVars, urlVars, findVars, cosVars>>
    \/ UnzipCall /\ UNCHANGED <<chunkVars, retryVars, dbVars, feed, procVars, urlVars, findVars, cosVars>>

ZipSpec == ZipSpecInit /\ [][ZipSpecNext]_vars

CosSpecInit ==
    ChunkIdle /\ RetryIdle /\ PipeInit /\ UrlIdle /\ FindIdle /\ ZipIdle /\ CosInit

CosSpecNext ==
    \/ CosCall /\ UNCHANGED <<chunkVars, retryVars, dbVars, feed, procVars, urlVars, findVars, zipVars>>

CosSpec == CosSpecInit /\ [][CosSpecNext]_vars

=============================================================================
